---- MODULE Spec2Model ----
(***************************************************************************)
(* A model of the session/connection core of the ACP client:               *)
(*   - SessionManager (connectToAgent, disconnectAgent, newConversation,   *)
(*     the close listener, sendPrompt, cancelTurn), over AgentManager and  *)
(*     ConnectionManager;                                                  *)
(*   - PermissionHandler.requestPermission;                                *)
(*   - TerminalHandler (createTerminal/appendOutput, terminalOutput,       *)
(*     releaseTerminal).                                                   *)
(* Every await of the source on I/O or on the user is a position (pc) of   *)
(* a call; the code between two such awaits is one atomic action, as on a  *)
(* single-threaded event loop.  The three components do not share state, so each has its own     *)
(* specification (Spec/SpecSeq/SpecTurn, SpecPerm, SpecTerm) over its own  *)
(* variables; the other variables stay at their initial values.            *)
(***************************************************************************)
EXTENDS Integers, Sequences, FiniteSets, TLC

VARIABLES
  \* AgentManager
  agents,           \* agents: Map<id, AgentInstance>, as id -> name
  nextId,           \* nextId
  procs,            \* the OS processes: id -> [name, st], st in none/run/killed/closed
  \* ConnectionManager
  connections,      \* connections: Map<agentId, ConnectionInfo>, as a set of ids
  \* SessionManager
  sessions,         \* sessions: Map<sessionId, SessionInfo>
  agentSessions,    \* agentSessions: Map<agentName, sessionId>
  activeSessionId,  \* activeSessionId, NoSession for null
  calls,            \* the connectToAgent calls in flight, by the process each spawned
  emitted,          \* the events the last step emitted, in order
  seen,             \* for each of them, what a listener read from the coordinator
  last,             \* what the last step was (operation, argument, result)
  prevOk,           \* the successful connectToAgent that completed just before, if any
  turns,            \* per session id: the prompt turn (none, pending, or the agent's response)
  turnOp,           \* the sendPrompt/cancelTurn step just taken: result and requests sent
  setCall,          \* the setMode/setModel call: awaited, or how the last one ended
  \* PermissionHandler
  autoApprove,      \* the acp.autoApprovePermissions setting
  permReqs,         \* the permission requests submitted so far, in order
  permOrder,        \* the requests in the order their outcomes were delivered
  \* TerminalHandler
  terminals,        \* terminals: Map<terminalId, ManagedTerminal>
  termNextId,       \* nextId
  children,         \* per created terminal: the closure state of createTerminal
  termResp,         \* the last terminalOutput response, and what each terminal last reported
  termOp,           \* the last call of a terminal operation by id, and how it ended
  termWait,         \* the waitForTerminalExit call awaiting exitPromise: the exit fields of the
                    \* ManagedTerminal object it holds, and whether it has returned them
  host,             \* the extension host: whether activate() has run, the command registry
  amAgents,         \* AgentManager.agents: the ids of the instances in the table
  amNextId,         \* AgentManager.nextId
  amProcs,          \* per id: the child process, the signals sent to it, the kill timer
  amOp,             \* the last spawnAgent / killAgent call and what it returned
  listeners,        \* SessionUpdateHandler.listeners, in insertion order
  received,         \* per listener: the updates it was called with, in order
  updOp,            \* the last handleUpdate call: the update, and whether it threw
  written,          \* per direction: the messages written to the tapped stream
  pending,          \* per direction: the chunks queued at the tap's transform
  delivered,        \* per direction: the messages the tap has passed on
  logTrafficOn,     \* the setting acp.logTraffic
  trafficLine,      \* the last line logTraffic appended to the traffic channel
  tapState,         \* per direction: the tap's transform stream, open or errored
  thrown,           \* per direction: logTraffic has thrown inside the transform
  fsOp              \* the last readTextFile call: its file content, parameters and result

sessVars == <<agents, nextId, procs, connections, sessions, agentSessions,
              activeSessionId, calls, emitted, seen, last, prevOk, turns, turnOp,
              setCall>>
permVars == <<autoApprove, permReqs, permOrder>>
termVars == <<terminals, termNextId, children, termResp, termOp, termWait>>
extVars == <<host>>
amVars == <<amAgents, amNextId, amProcs, amOp>>
updVars == <<listeners, received, updOp>>
tapVars == <<written, pending, delivered, logTrafficOn, trafficLine, tapState, thrown>>
fsVars == <<fsOp>>
vars == <<sessVars, permVars, termVars, extVars, amVars, updVars, tapVars, fsVars>>

----------------------------------------------------------------------------
(* Bounds *)

MaxSpawn == 2      \* processes spawned in one behaviour
MaxCalls == 2      \* connectToAgent calls in flight at once

MaxReqs == 3       \* permission requests submitted in one behaviour
MaxTerms == 1      \* terminals created in one behaviour
MaxOut == 3        \* pieces of output the terminal processes write, in total
MaxLimit == 2      \* the largest outputByteLimit a request asks for
MaxChunk == 2      \* pieces of output delivered in one data event

(* The configured agents (getAgentConfigs()) and one name that is not. *)
Configured == {"a", "b"}
Names == Configured \cup {"u"}

Ids == 1..MaxSpawn
NoSession == 0
NoName == "-"

----------------------------------------------------------------------------
(* Helpers on maps *)

Remove(f, k) == [x \in DOMAIN f \ {k} |-> f[x]]
Put(f, k, v) == [x \in DOMAIN f \cup {k} |-> IF x = k THEN v ELSE f[x]]
EmptyMap == [x \in {} |-> 0]

Ev(e, n, s) == [ev |-> e, name |-> n, sid |-> s]

(* What a listener reads from the coordinator while an event is emitted:   *)
(* getActiveSession() and the agentSessions map.                           *)
View(S) == [active |-> IF S.act \in DOMAIN S.ss THEN S.act ELSE NoSession,
            connected |-> S.as]

(* this.emit(...): the listeners run at once, on the state as it is then.  *)
emit(S, e) == [S EXCEPT !.ev = Append(@, e), !.seen = Append(@, View(S))]

(* The coordinator's state as one value, so that the methods of the source *)
(* compose as functions on it.                                             *)
Cur == [ag |-> agents, pr |-> procs, cn |-> connections, ss |-> sessions,
        as |-> agentSessions, act |-> activeSessionId, ev |-> <<>>, seen |-> <<>>]

Set(S) ==
  /\ agents' = S.ag
  /\ procs' = S.pr
  /\ connections' = S.cn
  /\ sessions' = S.ss
  /\ agentSessions' = S.as
  /\ activeSessionId' = S.act
  /\ emitted' = S.ev
  /\ seen' = S.seen

----------------------------------------------------------------------------
(* AgentManager *)

(* killAgent without this.agents.delete(agentId). *)
killAgentKeepsInstance(S, id) ==
  IF id \in DOMAIN S.ag
  THEN [S EXCEPT !.pr[id].st = "killed"]
  ELSE S

(* killAgent(agentId): no instance -> false, nothing sent; otherwise       *)
(* SIGTERM is sent and the instance leaves the table at once.              *)
killAgent(S, id) ==
  IF id \in DOMAIN S.ag
  THEN [S EXCEPT !.ag = Remove(@, id), !.pr[id].st = "killed"]
  ELSE S

(* spawnAgent(name, config): a fresh id, the instance enters the table.    *)
spawnAgent(S, id, n) ==
  [S EXCEPT !.ag = Put(@, id, n), !.pr[id] = [name |-> n, st |-> "run"]]

----------------------------------------------------------------------------
(* SessionManager *)

(* getActiveAgentName that finds no active agent. *)
getActiveAgentNameNone(S) == NoName

getActiveAgentName(S) ==
  IF S.act # NoSession /\ S.act \in DOMAIN S.ss
  THEN S.ss[S.act].agentName
  ELSE NoName

(* A reuse test that never finds the session. *)
HasLiveSessionNever(S, n) == FALSE

(* A live session exists for name n (the reuse test of connectToAgent).    *)
HasLiveSession(S, n) == n \in DOMAIN S.as /\ S.as[n] \in DOMAIN S.ss

(* disconnectAgent without its two early returns: it emits its events     *)
(* whether or not a session was found.                                     *)
disconnectAgentNoGuard(S, n) ==
  LET T == IF n \in DOMAIN S.as /\ S.as[n] \in DOMAIN S.ss
           THEN LET sid == S.as[n]
                    aid == S.ss[sid].agentId
                    K == killAgent(S, aid)
                IN [K EXCEPT !.cn = @ \ {aid},
                             !.ss = Remove(@, sid),
                             !.as = Remove(@, n),
                             !.act = IF @ = sid THEN NoSession ELSE @]
           ELSE S
  IN emit(emit(T, Ev("agent-disconnected", n, NoSession)),
          Ev("active-session-changed", NoName, NoSession))

(* disconnectAgent without connectionManager.removeConnection.             *)
disconnectAgentKeepsConnection(S, n) ==
  IF n \notin DOMAIN S.as THEN S
  ELSE LET sid == S.as[n] IN
    IF sid \notin DOMAIN S.ss THEN S
    ELSE LET aid == S.ss[sid].agentId
             K == killAgent(S, aid)
             T == [K EXCEPT !.ss = Remove(@, sid),
                            !.as = Remove(@, n),
                            !.act = IF @ = sid THEN NoSession ELSE @]
         IN emit(emit(T, Ev("agent-disconnected", n, NoSession)),
                 Ev("active-session-changed", NoName, NoSession))

disconnectAgent(S, n) ==
  IF n \notin DOMAIN S.as THEN S
  ELSE LET sid == S.as[n] IN
    IF sid \notin DOMAIN S.ss THEN S
    ELSE LET aid == S.ss[sid].agentId
             K == killAgent(S, aid)
             T == [K EXCEPT !.cn = @ \ {aid},
                            !.ss = Remove(@, sid),
                            !.as = Remove(@, n),
                            !.act = IF @ = sid THEN NoSession ELSE @]
         IN emit(emit(T, Ev("agent-disconnected", n, NoSession)),
                 Ev("active-session-changed", NoName, NoSession))

(* The 'agent-closed' listener connectToAgent registers for its process:   *)
(* it looks the session up by the agent NAME it captured.                  *)
onAgentClosed(S, id) ==
  LET n == S.pr[id].name
      T == IF n \in DOMAIN S.as
           THEN LET sid == S.as[n]
                    R == [S EXCEPT !.ss = Remove(@, sid),
                                   !.as = Remove(@, n),
                                   !.act = IF @ = sid THEN NoSession ELSE @]
                IN emit(emit(R, Ev("agent-disconnected", n, NoSession)),
                        Ev("active-session-changed", NoName, NoSession))
           ELSE S
  IN emit(T, Ev("agent-closed", n, id))

(* What the agent's newSession response carries: agent "a" advertises      *)
(* modes and no models, agent "b" models and no modes (null otherwise).    *)
Null == "null"
ResponseModes(n) == IF n = "a" THEN "ask" ELSE Null
ResponseModels(n) == IF n = "b" THEN "m1" ELSE Null

(* The registration at the end of a successful connectToAgent.  The agent  *)
(* issues the session id; distinct processes issue distinct ids, so the id *)
(* of the issuing process stands for it.                                   *)
SessionInfo(n, id) ==
  [agentId |-> id, agentName |-> n, modes |-> ResponseModes(n), models |-> ResponseModels(n)]

(* A registration that emits agent-connected before it sets the active     *)
(* session.                                                                *)
registerSessionEmitsEarly(S, n, id) ==
  LET T == emit([S EXCEPT !.ss = Put(@, id, SessionInfo(n, id)), !.as = Put(@, n, id)],
                Ev("agent-connected", n, NoSession))
  IN emit([T EXCEPT !.act = id], Ev("active-session-changed", NoName, id))

registerSession(S, n, id) ==
  LET T == [S EXCEPT !.ss = Put(@, id, SessionInfo(n, id)),
                     !.as = Put(@, n, id),
                     !.act = id]
  IN emit(emit(T, Ev("agent-connected", n, NoSession)),
          Ev("active-session-changed", NoName, id))

NoPrev == [name |-> NoName, id |-> 0, sid |-> NoSession]
NoTermOp == [op |-> "-", t |-> 0, res |-> "-"]
NoExit == [exitCode |-> Null, signal |-> Null]
NoWait == [t |-> 0, pc |-> "idle", exit |-> NoExit]
NoSetCall == [pc |-> "idle", kind |-> "-", sid |-> NoSession, val |-> "-"]
NoTurnOp == [op |-> "-", sid |-> NoSession, arg |-> "", res |-> "-", rpc |-> <<>>]
IdleCall == [pc |-> "idle", methods |-> 0, method |-> 0, after |-> NoPrev, rpcs |-> <<>>]
Step == [op |-> "step", name |-> NoName, res |-> "-", id |-> 0, after |-> NoPrev,
         methods |-> 0]
Done(op, n, res, id, aft) ==
  [op |-> op, name |-> n, res |-> res, id |-> id, after |-> aft, methods |-> 0]

(* The processes whose connectToAgent call is still suspended at an await. *)
InFlight == {i \in Ids : calls[i].pc # "idle"}
Quiescent == InFlight = {}

SessInit ==
  /\ agents = EmptyMap
  /\ nextId = 1
  /\ procs = [i \in Ids |-> [name |-> NoName, st |-> "none"]]
  /\ connections = {}
  /\ sessions = EmptyMap
  /\ agentSessions = EmptyMap
  /\ activeSessionId = NoSession
  /\ calls = [i \in Ids |-> IdleCall]
  /\ emitted = <<>>
  /\ seen = <<>>
  /\ last = Step
  /\ prevOk = NoPrev
  /\ turns = [i \in Ids |-> "none"]
  /\ turnOp = NoTurnOp
  /\ setCall = NoSetCall

PermIdle ==
  /\ autoApprove = "ask"
  /\ permReqs = <<>>
  /\ permOrder = <<>>

TermIdle ==
  /\ terminals = EmptyMap
  /\ termNextId = 1
  /\ children = EmptyMap
  /\ termResp = [t |-> 0, found |-> FALSE, output |-> <<>>, truncated |-> FALSE,
                 exited |-> FALSE, prevTruncated |-> FALSE, reported |-> {}]
  /\ termOp = NoTermOp
  /\ termWait = NoWait

(* The commands activate() registers, in the order of its registerCommand  *)
(* calls.                                                                  *)
ActivateCommands ==
  <<"acp.connectAgent", "acp.newConversation", "acp.disconnectAgent", "acp.openChat",
    "acp.sendPrompt", "acp.cancelTurn", "acp.restartAgent", "acp.showLogs",
    "acp.showLog", "acp.showTraffic", "acp.setMode", "acp.setModel",
    "acp.refreshAgents", "acp.addAgent", "acp.removeAgent", "acp.attachFile",
    "acp.browseRegistry">>

(* An activate() that registers no acp.openChat.                           *)
activateNoOpenChat(h) ==
  [isActive |-> TRUE,
   commands |-> h.commands \cup ({ActivateCommands[i] : i \in DOMAIN ActivateCommands}
                                   \ {"acp.openChat"})]

(* activate(context): every registerCommand call adds its command to the   *)
(* registry of the host.                                                   *)
activate(h) ==
  [isActive |-> TRUE,
   commands |-> h.commands \cup {ActivateCommands[i] : i \in DOMAIN ActivateCommands}]

(* AgentManager after construction: an empty table, no process yet.        *)
NoChild == [st |-> "none", exitCode |-> Null, signalCode |-> Null,
            sigterm |-> FALSE, timer |-> "off", sigkill |-> "none"]
NoAmOp == [op |-> "-", id |-> 0, res |-> "-", signal |-> FALSE]
AmInit ==
  /\ amAgents = {}
  /\ amNextId = 1
  /\ amProcs = [i \in Ids |-> NoChild]
  /\ amOp = NoAmOp

(* SessionUpdateHandler after construction, no update handled yet.         *)
MaxListeners == 2
ListenerIds == 1..MaxListeners
NoUpdOp == [update |-> [sessionId |-> NoSession, update |-> Null], threw |-> FALSE,
            caught |-> 0]
UpdInit ==
  /\ listeners = <<>>
  /\ received = [l \in ListenerIds |-> <<>>]
  /\ updOp = NoUpdOp

(* A connection whose tapped stream has carried nothing yet.               *)
Directions == {"send", "recv"}
NoLine == [direction |-> Null, label |-> Null,
           json |-> [id |-> Null, method |-> Null, result |-> Null]]
NoParam == [has |-> FALSE, v |-> 0]
NoFsOp == [op |-> "-", content |-> <<>>, line |-> NoParam, limit |-> NoParam, result |-> <<>>]
FsInit == fsOp = NoFsOp

TapInit ==
  /\ written = [d \in Directions |-> <<>>]
  /\ pending = [d \in Directions |-> <<>>]
  /\ delivered = [d \in Directions |-> <<>>]
  /\ logTrafficOn = TRUE
  /\ trafficLine = NoLine
  /\ tapState = [d \in Directions |-> "open"]
  /\ thrown = [d \in Directions |-> FALSE]

(* The host before the extension is activated, and after.                  *)
HostInit == host = [isActive |-> FALSE, commands |-> {}]
HostActive == host = activate([isActive |-> FALSE, commands |-> {}])

(* connectToAgent rejects: the call ends, the caller sees the error.       *)
Reject(S, c, why) ==
  /\ Set(S)
  /\ calls' = [calls EXCEPT ![c] = IdleCall]
  /\ last' = Done("connect", procs[c].name, why, c, calls[c].after)
  /\ prevOk' = NoPrev
  /\ UNCHANGED nextId

(* connectToAgent resolves with the session it registered.                 *)
Resolve(S, c) ==
  /\ Set(S)
  /\ calls' = [calls EXCEPT ![c] = IdleCall]
  /\ last' = [Done("connect", procs[c].name, "ok", c, calls[c].after)
                EXCEPT !.methods = calls[c].methods]
  /\ prevOk' = IF InFlight = {c} THEN [name |-> procs[c].name, id |-> c, sid |-> S.as[procs[c].name]]
               ELSE NoPrev
  /\ UNCHANGED nextId

(* The call moves on to its next await.                                    *)
Await(S, c, rec) ==
  /\ Set(S)
  /\ calls' = [calls EXCEPT ![c] = rec]
  /\ last' = Step
  /\ UNCHANGED <<nextId, prevOk>>

(* connectToAgent from the config lookup to the await of initialize:       *)
(* unknown name -> throw; otherwise spawn, register the listeners, and     *)
(* ConnectionManager.connect up to its await.                              *)
SpawnAndConnect(S, n, aft) ==
  IF n \notin Configured
  THEN /\ Set(S)
       /\ last' = Done("connect", n, "unknown-agent", 0, aft)
       /\ prevOk' = NoPrev
       /\ UNCHANGED <<calls, nextId>>
  ELSE /\ nextId <= MaxSpawn
       /\ Set(spawnAgent(S, nextId, n))
       /\ nextId' = nextId + 1
       /\ calls' = [calls EXCEPT ![nextId] = [pc |-> "initialize", methods |-> 0, method |-> 0, after |-> aft,
                                             rpcs |-> <<"initialize">>]]
       /\ last' = Step
       /\ prevOk' = NoPrev

(* A connectToAgent that looks the configuration up before it disconnects *)
(* the active agent.                                                       *)
connectToAgentLookupFirst(S, n, aft) ==
  /\ Cardinality(InFlight) < MaxCalls
  /\ IF HasLiveSession(S, n)
     THEN /\ Set(emit([S EXCEPT !.act = S.as[n]],
                      Ev("active-session-changed", NoName, S.as[n])))
          /\ last' = Done("connect", n, "reused", S.as[n], aft)
          /\ prevOk' = IF Quiescent
                       THEN [name |-> n, id |-> S.ss[S.as[n]].agentId, sid |-> S.as[n]]
                       ELSE NoPrev
          /\ UNCHANGED <<calls, nextId>>
     ELSE IF n \in Configured /\ getActiveAgentName(S) # NoName
     THEN SpawnAndConnect(disconnectAgent(S, getActiveAgentName(S)), n, aft)
     ELSE SpawnAndConnect(S, n, aft)

(* connectToAgent(agentName) run on the state S, up to its first await on *)
(* I/O.  The await of disconnectAgent is on a promise that is already      *)
(* resolved: the call resumes in the same turn of the event loop, before   *)
(* any response, close event or host command is dispatched.                *)
connectToAgent(S, n, aft) ==
  /\ Cardinality(InFlight) < MaxCalls
  /\ IF HasLiveSession(S, n)
     THEN \* reuse
          /\ Set(emit([S EXCEPT !.act = S.as[n]],
                      Ev("active-session-changed", NoName, S.as[n])))
          /\ last' = Done("connect", n, "reused", S.as[n], aft)
          /\ prevOk' = IF Quiescent
                       THEN [name |-> n, id |-> S.ss[S.as[n]].agentId, sid |-> S.as[n]]
                       ELSE NoPrev
          /\ UNCHANGED <<calls, nextId>>
     ELSE IF getActiveAgentName(S) # NoName
     THEN SpawnAndConnect(disconnectAgent(S, getActiveAgentName(S)), n, aft)
     ELSE SpawnAndConnect(S, n, aft)

(* connectToAgent(agentName) called by the host.                           *)
ConnectStart(n) == connectToAgent(Cur, n, prevOk)

(* newConversation(): no active session -> null; otherwise disconnect the  *)
(* active session's agent, emit clear-chat, and connectToAgent the same    *)
(* name.  The await of disconnectAgent resumes in the same turn.           *)
clearChatFirst(S) ==
  [S EXCEPT !.ev = <<Ev("clear-chat", NoName, NoSession)>> \o @, !.seen = <<View(S)>> \o @]

clearChat(S) == emit(S, Ev("clear-chat", NoName, NoSession))

NewConversation ==
  IF activeSessionId # NoSession /\ activeSessionId \in DOMAIN sessions
  THEN LET n == sessions[activeSessionId].agentName
       IN connectToAgent(clearChat(disconnectAgent(Cur, n)), n, NoPrev)
  ELSE /\ Set(Cur)
       /\ last' = Done("newConversation", NoName, "null", 0, NoPrev)
       /\ prevOk' = NoPrev
       /\ UNCHANGED <<calls, nextId>>

(* connection.initialize settles: on success the connection is stored and *)
(* createAcpSession calls newSession; on failure the process is killed.    *)
InitializeSettles(c, ok) ==
  /\ calls[c].pc = "initialize"
  /\ IF ok
     THEN Await([Cur EXCEPT !.cn = @ \cup {c}], c, [calls[c] EXCEPT !.pc = "newSession",
                                                             !.rpcs = Append(@, "newSession")])
     ELSE Reject(killAgent(Cur, c), c, "initialize-failed")

(* What a newSession request may settle with: a response, or an error     *)
(* with a code and a message.                                              *)
AuthRequiredCode == -32000
SessionCreated == [ok |-> TRUE, code |-> 0, message |-> ""]
NewSessionResults ==
  { SessionCreated,
    [ok |-> FALSE, code |-> AuthRequiredCode, message |-> "Authentication required"],
    [ok |-> FALSE, code |-> -32603, message |-> "auth_required"],
    [ok |-> FALSE, code |-> -32603, message |-> "Authentication required"],
    [ok |-> FALSE, code |-> -32603, message |-> "Internal error"] }

(* /auth.?required/i.test(message): at most one character between 'auth'   *)
(* and 'required'.                                                         *)
MatchesAuthRequired(message) == message \in {"auth_required", "Auth required", "authrequired"}

isAuthRequired(e) == e.code = AuthRequiredCode \/ MatchesAuthRequired(e.message)

(* The branch of createAcpSession a result of the first newSession takes.  *)
Outcome(e) == IF e.ok THEN "ok" ELSE IF isAuthRequired(e) THEN "auth" ELSE "error"

(* The first newSession settles.  out: ok, error (not auth-required), or   *)
(* auth (auth-required) with m advertised auth methods.                    *)
NewSessionSettles(c, out, m) ==
  /\ calls[c].pc = "newSession"
  /\ CASE out = "ok" -> Resolve(registerSession(Cur, procs[c].name, c), c)
       [] out = "error" -> Reject(killAgent(Cur, c), c, "newSession-failed")
       [] out = "auth" /\ m = 0 -> Reject(killAgent(Cur, c), c, "no-auth-methods")
       [] out = "auth" /\ m > 0 -> Await(Cur, c, [calls[c] EXCEPT !.pc = "choose", !.methods = m])

(* A variant that authenticates with authMethods[0] whatever was picked.   *)
AuthChoiceSettlesFirst(c, chosen) ==
  /\ calls[c].pc = "choose"
  /\ chosen <= calls[c].methods
  /\ IF chosen # 0
     THEN Await(Cur, c, [calls[c] EXCEPT !.pc = "authenticate", !.method = 1,
                                       !.rpcs = Append(@, "authenticate")])
     ELSE Reject(killAgent(Cur, c), c, "auth-cancelled")

(* showQuickPick (several methods) returns the method picked, or nothing;  *)
(* showInformationMessage (one method, authMethods[0]) returns             *)
(* 'Authenticate', or nothing.  chosen is the position of the method the   *)
(* user agreed to, 0 for nothing.  authenticate is then called with the    *)
(* id of that method.                                                      *)
AuthChoiceSettles(c, chosen) ==
  /\ calls[c].pc = "choose"
  /\ chosen <= calls[c].methods
  /\ IF chosen # 0
     THEN Await(Cur, c, [calls[c] EXCEPT !.pc = "authenticate", !.method = chosen,
                                       !.rpcs = Append(@, "authenticate")])
     ELSE Reject(killAgent(Cur, c), c, "auth-cancelled")

(* authenticate({methodId}) settles; the method plays no part afterwards.  *)
AuthenticateSettles(c, ok) ==
  /\ calls[c].pc = "authenticate"
  /\ IF ok
     THEN Await(Cur, c, [calls[c] EXCEPT !.pc = "retryNewSession", !.method = 0,
                                       !.rpcs = Append(@, "newSession")])
     ELSE Reject(killAgent(Cur, c), c, "auth-failed")

(* A variant that starts the authentication again when the retried         *)
(* newSession fails with auth-required.                                    *)
RetryNewSessionSettlesAgain(c, e) ==
  /\ calls[c].pc = "retryNewSession"
  /\ CASE e.ok -> Resolve(registerSession(Cur, procs[c].name, c), c)
       [] ~e.ok /\ isAuthRequired(e) -> Await(Cur, c, [calls[c] EXCEPT !.pc = "choose"])
       [] OTHER -> Reject(killAgent(Cur, c), c, "retry-failed")

(* The newSession after authenticate settles with e: a response registers  *)
(* the session, any error (auth-required or not) kills the process and is  *)
(* thrown.                                                                 *)
RetryNewSessionSettles(c, e) ==
  /\ calls[c].pc = "retryNewSession"
  /\ IF e.ok
     THEN Resolve(registerSession(Cur, procs[c].name, c), c)
     ELSE Reject(killAgent(Cur, c), c, "retry-failed")

(* disconnectAgent(agentName) called by the host.                          *)
DisconnectAgent(n) ==
  /\ Set(disconnectAgent(Cur, n))
  /\ last' = Done("disconnect", n, IF HasLiveSession(Cur, n) THEN "done" ELSE "noop", 0, NoPrev)
  /\ prevOk' = NoPrev
  /\ UNCHANGED <<calls, nextId>>

(* The process closes (killed, crashed or exited): AgentManager's 'close'  *)
(* handler drops the instance and emits agent-closed, which runs the       *)
(* listener of the connectToAgent call that spawned it.                    *)
ProcessCloses(id) ==
  /\ procs[id].st \in {"run", "killed"}
  /\ Set(onAgentClosed([Cur EXCEPT !.ag = Remove(@, id), !.pr[id].st = "closed"], id))
  /\ last' = Done("close", NoName, "-", id, NoPrev)
  /\ prevOk' = IF Quiescent THEN NoPrev ELSE prevOk
  /\ UNCHANGED <<calls, nextId>>

(* A step of the coordinator that is not a sendPrompt or cancelTurn.       *)
Idle == UNCHANGED <<permVars, termVars, extVars, amVars, updVars, tapVars, fsVars, turns, setCall>> /\ turnOp' = NoTurnOp

CallConnect == \E n \in Names : ConnectStart(n) /\ Idle
InitializeDone == \E c \in Ids, ok \in BOOLEAN : InitializeSettles(c, ok) /\ Idle
NewSessionDone ==
  \E c \in Ids, out \in {Outcome(e) : e \in NewSessionResults}, m \in 0..2 :
    /\ out # "auth" => m = 0
    /\ NewSessionSettles(c, out, m)
    /\ Idle
AuthChoiceDone == \E c \in Ids, chosen \in 0..2 : AuthChoiceSettles(c, chosen) /\ Idle
AuthenticateDone == \E c \in Ids, ok \in BOOLEAN : AuthenticateSettles(c, ok) /\ Idle
RetryNewSessionDone == \E c \in Ids, e \in NewSessionResults : RetryNewSessionSettles(c, e) /\ Idle
CallDisconnect == \E n \in Names : DisconnectAgent(n) /\ Idle
CallNewConversation == NewConversation /\ Idle
ProcessClose == \E id \in Ids : ProcessCloses(id) /\ Idle

(* Calls may overlap: the host may call connectToAgent or disconnectAgent  *)
(* while an earlier connectToAgent is suspended at an await.               *)
Next ==
  \/ CallConnect
  \/ InitializeDone
  \/ NewSessionDone
  \/ AuthChoiceDone
  \/ AuthenticateDone
  \/ RetryNewSessionDone
  \/ CallDisconnect
  \/ CallNewConversation
  \/ ProcessClose

(* Calls never overlap: the host awaits each call before the next.         *)
SeqConnect == Quiescent /\ CallConnect
SeqDisconnect == Quiescent /\ CallDisconnect
SeqNewConversation == Quiescent /\ CallNewConversation

NextSeq ==
  \/ SeqConnect
  \/ InitializeDone
  \/ NewSessionDone
  \/ AuthChoiceDone
  \/ AuthenticateDone
  \/ RetryNewSessionDone
  \/ SeqDisconnect
  \/ SeqNewConversation
  \/ ProcessClose

Init == SessInit /\ PermIdle /\ TermIdle /\ HostActive /\ AmInit /\ UpdInit /\ TapInit /\ FsInit
Spec == Init /\ [][Next]_vars
SpecSeq == Init /\ [][NextSeq]_vars

(* C26: when a connectToAgent that spawned a process succeeds,             *)
(* agent-connected(name) is emitted before active-session-changed(id), and *)
(* a listener reading the coordinator during either event finds the new    *)
(* session in the table, mapped from its agent name, and active.           *)
C26_EventsAfterRegistration ==
  [][(last'.op = "connect" /\ last'.res = "ok")
     => LET sid == last'.id
            n == last'.name
        IN /\ emitted' = <<Ev("agent-connected", n, NoSession),
                           Ev("active-session-changed", NoName, sid)>>
           /\ \A i \in 1..2 :
                /\ seen'[i].active = sid
                /\ n \in DOMAIN seen'[i].connected
                /\ seen'[i].connected[n] = sid
           /\ sid \in DOMAIN sessions' /\ sessions'[sid].agentName = n
           /\ activeSessionId' = sid]_vars

(* A connectToAgent that replaced another agent has just succeeded.        *)
C26_Witness ==
  /\ last.op = "connect" /\ last.res = "ok"
  /\ Len(emitted) = 2
  /\ seen[1].active = last.id
  /\ \E id \in Ids : id # last.id /\ procs[id].st # "none"

(* The number of requests of one method an attempt has sent so far.        *)
Sent(c, method) == Cardinality({i \in DOMAIN calls[c].rpcs : calls[c].rpcs[i] = method})

(* C25: within one connectToAgent attempt authenticate is sent at most     *)
(* once and newSession at most twice; when the retried newSession fails,   *)
(* with an auth-required error or any other, the attempt ends with the     *)
(* error and sends nothing more; and a first newSession failure that is    *)
(* not auth-required ends the attempt without an authentication.           *)
C25_AuthenticateOnceRetryOnce ==
  [][\A c \in Ids :
       /\ Sent(c, "authenticate")' <= 1
       /\ Sent(c, "newSession")' <= 2
       /\ \A e \in NewSessionResults :
            /\ (~e.ok /\ RetryNewSessionSettles(c, e))
                 => /\ calls'[c].pc = "idle"
                    /\ last'.op = "connect" /\ last'.id = c /\ last'.res = "retry-failed"
            /\ (~e.ok /\ ~isAuthRequired(e) /\ calls[c].pc = "newSession"
                  /\ \E m \in 0..2 : NewSessionSettles(c, Outcome(e), m))
                 => /\ calls'[c].pc = "idle"
                    /\ Sent(c, "authenticate") = 0
                    /\ last'.op = "connect" /\ last'.id = c
                    /\ last'.res = "newSession-failed"]_vars

(* An attempt authenticated, retried newSession, and ended with the error  *)
(* of the retry.                                                           *)
C25_Witness ==
  /\ last.op = "connect"
  /\ last.res = "retry-failed"
  /\ calls[last.id].pc = "idle"
  /\ procs[last.id].st = "killed"

(* C23: the connection table holds an entry for an agent id only while    *)
(* that agent's process handle is live: after the process was killed or    *)
(* has closed, getConnection(agentId) returns nothing.                     *)
C23_ConnectionOnlyWhileLive ==
  \A id \in connections : id \in DOMAIN agents /\ procs[id].st = "run"

----------------------------------------------------------------------------
(* Activation and the command registry *)

(* The host runs activate(), once.                                         *)
Activate ==
  /\ ~host.isActive
  /\ host' = activate(host)
  /\ UNCHANGED <<sessVars, permVars, termVars, amVars, updVars, tapVars, fsVars>>

(* The host runs a command only if it is in the registry.                  *)
Registered(cmd) == cmd \in host.commands

CmdConnectAgent == Registered("acp.connectAgent") /\ SeqConnect
CmdNewConversation == Registered("acp.newConversation") /\ SeqNewConversation
CmdDisconnectAgent == Registered("acp.disconnectAgent") /\ SeqDisconnect

NextExt ==
  \/ Activate
  \/ CmdConnectAgent
  \/ CmdNewConversation
  \/ CmdDisconnectAgent
  \/ InitializeDone
  \/ NewSessionDone
  \/ AuthChoiceDone
  \/ AuthenticateDone
  \/ RetryNewSessionDone
  \/ ProcessClose

InitExt == SessInit /\ PermIdle /\ TermIdle /\ HostInit /\ AmInit /\ UpdInit /\ TapInit /\ FsInit
SpecExt == InitExt /\ [][NextExt]_vars

(* C24: once activate() has run, the command registry contains             *)
(* acp.connectAgent, acp.newConversation and acp.openChat, so at least one *)
(* command with the acp. prefix is registered.                             *)
C24_CommandsRegistered ==
  host.isActive =>
    {"acp.connectAgent", "acp.newConversation", "acp.openChat"} \subseteq host.commands

(* The extension is active and a command of the registry has connected an  *)
(* agent.                                                                  *)
C24_Witness ==
  /\ host.isActive
  /\ "acp.openChat" \in host.commands
  /\ activeSessionId # NoSession

----------------------------------------------------------------------------
(* Prompt turns *)

Texts == {"hi", ""}
StopReasons == {"end_turn"}

(* The request of sendPrompt: one text content block.                      *)
PromptRequest(sid, text) ==
  [method |-> "session/prompt", sessionId |-> sid, prompt |-> <<[type |-> "text", text |-> text]>>]

CancelNotification(sid) == [method |-> "session/cancel", sessionId |-> sid, prompt |-> <<>>]

(* A sendPrompt that sends the text as two blocks.                         *)
sendPromptTwoBlocks(sid, text) ==
  IF sid \notin DOMAIN sessions
  THEN [op |-> "sendPrompt", sid |-> sid, arg |-> text, res |-> "session-not-found", rpc |-> <<>>]
  ELSE IF sessions[sid].agentId \notin connections
  THEN [op |-> "sendPrompt", sid |-> sid, arg |-> text, res |-> "no-connection", rpc |-> <<>>]
  ELSE [op |-> "sendPrompt", sid |-> sid, arg |-> text, res |-> "pending",
        rpc |-> <<[PromptRequest(sid, text) EXCEPT !.prompt = @ \o @]>>]

(* sendPrompt(sessionId, text) up to its await: the two throws, or the     *)
(* prompt request on the connection of the session's agent.                *)
sendPrompt(sid, text) ==
  IF sid \notin DOMAIN sessions
  THEN [op |-> "sendPrompt", sid |-> sid, arg |-> text, res |-> "session-not-found", rpc |-> <<>>]
  ELSE IF sessions[sid].agentId \notin connections
  THEN [op |-> "sendPrompt", sid |-> sid, arg |-> text, res |-> "no-connection", rpc |-> <<>>]
  ELSE [op |-> "sendPrompt", sid |-> sid, arg |-> text, res |-> "pending",
        rpc |-> <<PromptRequest(sid, text)>>]

(* A cancelTurn that throws for an unknown session.                        *)
cancelTurnThrows(sid) ==
  IF sid \notin DOMAIN sessions
  THEN [op |-> "cancelTurn", sid |-> sid, arg |-> "", res |-> "session-not-found", rpc |-> <<>>]
  ELSE IF sessions[sid].agentId \notin connections
  THEN [op |-> "cancelTurn", sid |-> sid, arg |-> "", res |-> "returned", rpc |-> <<>>]
  ELSE [op |-> "cancelTurn", sid |-> sid, arg |-> "", res |-> "returned", rpc |-> <<CancelNotification(sid)>>]

(* cancelTurn(sessionId): returns at once for an unknown session or a      *)
(* missing connection, otherwise sends the cancel notification.            *)
cancelTurn(sid) ==
  IF sid \notin DOMAIN sessions
  THEN [op |-> "cancelTurn", sid |-> sid, arg |-> "", res |-> "returned", rpc |-> <<>>]
  ELSE IF sessions[sid].agentId \notin connections
  THEN [op |-> "cancelTurn", sid |-> sid, arg |-> "", res |-> "returned", rpc |-> <<>>]
  ELSE [op |-> "cancelTurn", sid |-> sid, arg |-> "", res |-> "returned", rpc |-> <<CancelNotification(sid)>>]

(* A sendPrompt or cancelTurn step leaves the coordinator's tables alone.  *)
TurnFrame ==
  /\ UNCHANGED <<agents, nextId, procs, connections, sessions, agentSessions,
                 activeSessionId, calls, prevOk, permVars, termVars, extVars,
                 amVars, updVars, tapVars, fsVars, setCall>>
  /\ emitted' = <<>>
  /\ seen' = <<>>
  /\ last' = Step

(* The host calls sendPrompt; one prompt per session is awaited at a time. *)
SendPrompt ==
  \E sid \in Ids, text \in Texts :
    /\ turns[sid] # "pending"
    /\ turnOp' = sendPrompt(sid, text)
    /\ turns' = IF turnOp'.res = "pending" THEN [turns EXCEPT ![sid] = "pending"] ELSE turns
    /\ TurnFrame

(* connection.prompt settles: sendPrompt returns the response, or rejects  *)
(* with the error.                                                         *)
PromptSettles ==
  \E sid \in Ids, r \in StopReasons \cup {"error"} :
    /\ turns[sid] = "pending"
    /\ turns' = [turns EXCEPT ![sid] = r]
    /\ turnOp' = [op |-> "promptDone", sid |-> sid, arg |-> "", res |-> turns'[sid], rpc |-> <<>>]
    /\ TurnFrame

(* The host calls cancelTurn.                                              *)
CancelTurn ==
  \E sid \in Ids :
    /\ turnOp' = cancelTurn(sid)
    /\ UNCHANGED turns
    /\ TurnFrame

NextTurn ==
  \/ SeqConnect
  \/ InitializeDone
  \/ NewSessionDone
  \/ AuthChoiceDone
  \/ AuthenticateDone
  \/ RetryNewSessionDone
  \/ SeqDisconnect
  \/ SeqNewConversation
  \/ ProcessClose
  \/ SendPrompt
  \/ PromptSettles
  \/ CancelTurn

SpecTurn == Init /\ [][NextTurn]_vars

(* What sendPrompt and cancelTurn could change in the coordinator.         *)
TablesUnchanged ==
  UNCHANGED <<agents, procs, connections, sessions, agentSessions, activeSessionId, calls>>

(* C19: sendPrompt with a session id that is not in the session table      *)
(* fails with the session-not-found error, sends no request and changes no *)
(* state; with a registered id it sends exactly one prompt request for     *)
(* that session carrying a single text block with the given text, and      *)
(* what it returns is the response of that request.                        *)
C19_SendPromptContract ==
  [][/\ turnOp'.op = "sendPrompt" /\ turnOp'.sid \notin DOMAIN sessions
        => /\ turnOp'.res = "session-not-found"
           /\ turnOp'.rpc = <<>>
           /\ TablesUnchanged /\ UNCHANGED turns
     /\ turnOp'.op = "sendPrompt" /\ turnOp'.sid \in DOMAIN sessions
        => /\ turnOp'.rpc = <<[method |-> "session/prompt", sessionId |-> turnOp'.sid,
                               prompt |-> <<[type |-> "text", text |-> turnOp'.arg]>>]>>
           /\ turnOp'.res = "pending"
           /\ turns'[turnOp'.sid] = "pending"
     /\ turnOp'.op = "promptDone"
        => /\ turns[turnOp'.sid] = "pending"
           /\ turnOp'.rpc = <<>>
           /\ turnOp'.res = turns'[turnOp'.sid]]_vars

(* A prompt sent to a registered session returned its stop reason.         *)
C19_Witness ==
  /\ turnOp.op = "promptDone"
  /\ turnOp.res \in StopReasons
  /\ turnOp.sid \in DOMAIN sessions

(* C20: cancelTurn never fails because of the state of the session: for an *)
(* unknown session id it sends nothing and changes nothing, for a          *)
(* registered session whose turn has finished it returns without error,    *)
(* and it never changes the session table or the active session.           *)
C20_CancelTurnNeverFails ==
  [][turnOp'.op = "cancelTurn"
     => /\ turnOp'.res = "returned"
        /\ UNCHANGED <<sessions, agentSessions, activeSessionId>>
        /\ turnOp'.sid \notin DOMAIN sessions
           => turnOp'.rpc = <<>> /\ TablesUnchanged /\ UNCHANGED turns]_vars

(* cancelTurn was called on a registered session whose turn had finished.  *)
C20_Witness ==
  /\ turnOp.op = "cancelTurn"
  /\ turnOp.sid \in DOMAIN sessions
  /\ turns[turnOp.sid] \in StopReasons
  /\ turnOp.res = "returned"

----------------------------------------------------------------------------
(* Session modes and models *)

SetKinds == {"mode", "model"}
SetValues(kind) == IF kind = "mode" THEN {"ask", "code"} ELSE {"m1", "m2"}

(* mode-changed(sessionId, modeId) / model-changed(sessionId, modelId):    *)
(* the id that was set travels in the second field.                        *)
EvSet(kind, sid, v) ==
  Ev(IF kind = "mode" THEN "mode-changed" ELSE "model-changed", v, sid)

(* The assignment to session.modes.currentModeId (session.models           *)
(* .currentModelId): the session object is changed in place, and only if   *)
(* it has modes (models).  An object no longer in the table is garbage.    *)
updateCached(ss, kind, sid, v) ==
  IF sid \notin DOMAIN ss THEN ss
  ELSE IF kind = "mode"
       THEN (IF ss[sid].modes # Null THEN [ss EXCEPT ![sid].modes = v] ELSE ss)
       ELSE (IF ss[sid].models # Null THEN [ss EXCEPT ![sid].models = v] ELSE ss)

(* A setMode that updates the cache and emits whatever the agent answered. *)
afterSetOptimistic(ok, kind, sid, v) ==
  [ss |-> updateCached(sessions, kind, sid, v), ev |-> <<EvSet(kind, sid, v)>>,
   pc |-> IF ok THEN "done" ELSE "rejected"]

(* setMode / setModel after the await: the statements after it run only    *)
(* when the agent's call resolved; a rejection leaves the method at the    *)
(* await.                                                                  *)
afterSet(ok, kind, sid, v) ==
  IF ok
  THEN [ss |-> updateCached(sessions, kind, sid, v), ev |-> <<EvSet(kind, sid, v)>>,
        pc |-> "done"]
  ELSE [ss |-> sessions, ev |-> <<>>, pc |-> "rejected"]

SetFrame ==
  /\ UNCHANGED <<agents, nextId, procs, connections, agentSessions, activeSessionId,
                 calls, prevOk, permVars, termVars, extVars, amVars, updVars, tapVars, fsVars,
                 turns>>
  /\ last' = Step
  /\ turnOp' = NoTurnOp

(* The host calls setMode or setModel: it returns at once for an unknown   *)
(* session or a missing connection, otherwise it sends the request and     *)
(* awaits it.                                                              *)
SetStart ==
  \E kind \in SetKinds, sid \in Ids :
    \E v \in SetValues(kind) :
      /\ setCall.pc # "pending"
      /\ setCall' = [pc |-> IF sid \in DOMAIN sessions /\ sessions[sid].agentId \in connections
                            THEN "pending" ELSE "returned",
                     kind |-> kind, sid |-> sid, val |-> v]
      /\ UNCHANGED sessions
      /\ emitted' = <<>>
      /\ seen' = <<>>
      /\ SetFrame

(* The agent's setSessionMode / setSessionModel call settles.              *)
SetSettles ==
  \E ok \in BOOLEAN :
    /\ setCall.pc = "pending"
    /\ LET r == afterSet(ok, setCall.kind, setCall.sid, setCall.val)
       IN /\ sessions' = r.ss
          /\ emitted' = r.ev
          /\ seen' = [i \in DOMAIN r.ev |-> View([Cur EXCEPT !.ss = r.ss])]
          /\ setCall' = [setCall EXCEPT !.pc = r.pc]
    /\ SetFrame

NextMode ==
  \/ SeqConnect
  \/ InitializeDone
  \/ NewSessionDone
  \/ AuthChoiceDone
  \/ AuthenticateDone
  \/ RetryNewSessionDone
  \/ SeqDisconnect
  \/ SeqNewConversation
  \/ ProcessClose
  \/ SetStart
  \/ SetSettles

SpecMode == Init /\ [][NextMode]_vars

(* The cached current mode and model of the registered sessions.           *)
Cached(ss) == [sid \in DOMAIN ss |-> <<ss[sid].modes, ss[sid].models>>]

SetEvents(evs) == {i \in 1..Len(evs) : evs[i].ev \in {"mode-changed", "model-changed"}}

(* C21: setMode and setModel change the cached current mode or model of a  *)
(* session and emit mode-changed or model-changed only in the step in      *)
(* which the agent's call succeeded, and then the event names the session  *)
(* and the id and a session that has modes (models) holds the new id; when *)
(* the call rejects or the session id is unknown the cache is unchanged    *)
(* and no event is emitted.                                                *)
C21_SetOnlyAfterSuccess ==
  [][/\ setCall.pc = "pending" /\ setCall'.pc = "done"
        => /\ emitted' = <<EvSet(setCall.kind, setCall.sid, setCall.val)>>
           /\ sessions' = updateCached(sessions, setCall.kind, setCall.sid, setCall.val)
     /\ setCall' # setCall /\ setCall'.pc \in {"rejected", "returned"}
        => UNCHANGED sessions /\ SetEvents(emitted') = {}
     /\ setCall'.pc = "returned" /\ setCall' # setCall /\ setCall'.sid \in DOMAIN sessions
        => sessions[setCall'.sid].agentId \notin connections
     /\ (\/ SetEvents(emitted') # {}
         \/ \E sid \in DOMAIN sessions \cap DOMAIN sessions' :
              Cached(sessions')[sid] # Cached(sessions)[sid])
        => setCall.pc = "pending" /\ setCall'.pc = "done"]_vars

(* A setMode on a session with modes succeeded and changed the cache.      *)
C21_Witness ==
  /\ setCall.pc = "done"
  /\ setCall.kind = "mode"
  /\ setCall.sid \in DOMAIN sessions
  /\ sessions[setCall.sid].modes = "code"
  /\ emitted = <<EvSet("mode", setCall.sid, "code")>>

(* What the scheduling guarantees.  A process that was sent SIGTERM or     *)
(* SIGKILL closes, and a running agent answers the request it was sent.    *)
(* Nothing in connectToAgent settles a request whose process has closed:   *)
(* there is no timeout, and the agent-closed listener does not touch the   *)
(* pending call, so a request to a closed process settles only if the      *)
(* protocol library chooses to settle it.                                  *)
KilledCloses == \E id \in Ids : procs[id].st = "killed" /\ ProcessCloses(id) /\ Idle

RunningAnswers ==
  \E c \in Ids :
    /\ procs[c].st = "run"
    /\ \/ \E ok \in BOOLEAN : InitializeSettles(c, ok)
       \/ \E e \in NewSessionResults, m \in 0..2 : NewSessionSettles(c, Outcome(e), m)
       \/ \E chosen \in 0..2 : AuthChoiceSettles(c, chosen)
       \/ \E ok \in BOOLEAN : AuthenticateSettles(c, ok)
       \/ \E e \in NewSessionResults : RetryNewSessionSettles(c, e)
    /\ Idle

SpecLive == Init /\ [][Next]_vars /\ WF_vars(KilledCloses) /\ WF_vars(RunningAnswers)

----------------------------------------------------------------------------
(* Properties of the session coordinator *)

Killed(id) == id \notin DOMAIN agents /\ procs[id].st \in {"killed", "closed"}
SessionsOf(n) == {s \in DOMAIN sessions : sessions[s].agentName = n}
SwitchedAgent ==
  /\ last.op = "connect"
  /\ last.res \in {"ok", "reused"}
  /\ last.after.name \notin {NoName, last.name}

(* C1: when connectToAgent(A) has completed successfully and then          *)
(* connectToAgent(B), B # A, completes successfully with nothing in        *)
(* between, B is the only connected agent: the agent-name map is {B},      *)
(* A's session is in neither table, A's process is killed and out of the   *)
(* supervisor's table, and the active session is B's.                      *)
C1_SwitchLeavesOnlyB ==
  SwitchedAgent =>
    /\ DOMAIN agentSessions = {last.name}
    /\ last.after.sid \notin DOMAIN sessions
    /\ SessionsOf(last.after.name) = {}
    /\ Killed(last.after.id)
    /\ activeSessionId = agentSessions[last.name]
    /\ activeSessionId \in DOMAIN sessions
    /\ sessions[activeSessionId].agentName = last.name

C1_Witness == SwitchedAgent /\ last.res = "ok" /\ last.after.name = "a" /\ last.name = "b"

(* C2: in every reachable state at most one agent name maps to a live      *)
(* session, also when connectToAgent calls for different agents overlap.   *)
C2_AtMostOneAgent == Cardinality(DOMAIN agentSessions) <= 1

FailedAfterSpawn ==
  /\ last.op = "connect"
  /\ last.res \in {"initialize-failed", "newSession-failed", "no-auth-methods",
                   "auth-cancelled", "auth-failed", "retry-failed"}

(* C5: when connectToAgent rejects after it has spawned a process, on any  *)
(* of its failure paths, that process is killed and out of the             *)
(* supervisor's table and no session is registered for the agent name.     *)
C5_FailureLeavesNothing ==
  FailedAfterSpawn =>
    /\ Killed(last.id)
    /\ last.name \notin DOMAIN agentSessions
    /\ SessionsOf(last.name) = {}
    /\ last.id \notin DOMAIN sessions

C5_Witness == FailedAfterSpawn /\ last.res = "retry-failed" /\ procs[last.id].st = "killed"

(* C6: connectToAgent(A) called again right after a successful             *)
(* connectToAgent(A), with no disconnect or closure in between, returns    *)
(* the same session id, spawns nothing, starts no handshake and leaves     *)
(* that session active.                                                    *)
C6_ReuseSameSession ==
  [][\A n \in Names :
       (prevOk.name = n /\ ConnectStart(n)) =>
         /\ last'.res = "reused"
         /\ last'.id = prevOk.sid
         /\ activeSessionId' = prevOk.sid
         /\ prevOk.sid \in DOMAIN sessions'
         /\ UNCHANGED <<agents, procs, nextId, calls, connections, sessions, agentSessions>>]_vars

C6_Witness ==
  /\ last.op = "connect"
  /\ last.res = "reused"
  /\ last.after.name = last.name
  /\ activeSessionId = last.id

(* C7: disconnectAgent(name) for a name with no registered session emits   *)
(* no event, kills no process and changes none of the tables nor the       *)
(* active-session pointer.                                                 *)
C7_DisconnectUnconnectedNoop ==
  [][\A n \in Names :
       (n \notin DOMAIN agentSessions /\ last'.op = "disconnect" /\ DisconnectAgent(n)) =>
         /\ emitted' = <<>>
         /\ UNCHANGED <<agents, procs, connections, sessions, agentSessions,
                        activeSessionId>>]_vars

C7_Witness ==
  /\ last.op = "disconnect"
  /\ last.res = "noop"
  /\ last.name \notin DOMAIN agentSessions
  /\ DOMAIN agentSessions # {}

(* C14: when the process closes before initialize has settled,            *)
(* connectToAgent eventually rejects instead of staying pending forever.   *)
C14_ExitBeforeHandshakeRejects ==
  \A c \in Ids :
    (calls[c].pc = "initialize" /\ procs[c].st = "closed") ~> (calls[c].pc = "idle")

(* C15: when the first newSession fails with auth-required and two or     *)
(* more methods are advertised, a method selection is requested; when a    *)
(* method is selected authenticate is called with that method; when it     *)
(* succeeds newSession is retried; when the retry succeeds connectToAgent  *)
(* resolves with the session of the retried response, registered and       *)
(* active.                                                                 *)
C15_AuthSelectionFlow ==
  [][\A c \in Ids :
       /\ (\E e \in NewSessionResults :
             /\ ~e.ok
             /\ e.code = AuthRequiredCode \/ MatchesAuthRequired(e.message)
             /\ NewSessionSettles(c, Outcome(e), 2)) =>
            /\ calls'[c].pc = "choose"
            /\ calls'[c].methods >= 2
            /\ UNCHANGED <<agents, procs, sessions, agentSessions, activeSessionId>>
       /\ \A k \in 1..2 :
            (calls[c].methods >= 2 /\ AuthChoiceSettles(c, k)) =>
              /\ calls'[c].pc = "authenticate"
              /\ calls'[c].method = k
       /\ (calls[c].methods >= 2 /\ AuthenticateSettles(c, TRUE)) =>
            /\ calls'[c].pc = "retryNewSession"
       /\ (calls[c].methods >= 2 /\ RetryNewSessionSettles(c, SessionCreated)) =>
            /\ calls'[c].pc = "idle"
            /\ last'.op = "connect" /\ last'.res = "ok" /\ last'.id = c
            /\ c \in DOMAIN sessions'
            /\ sessions'[c].agentName = procs[c].name
            /\ agentSessions'[procs[c].name] = c
            /\ activeSessionId' = c]_vars

(* connectToAgent resolved after a selection among two advertised methods, *)
(* and its session is registered and active.                               *)
C15_Witness ==
  /\ last.op = "connect" /\ last.res = "ok"
  /\ last.methods = 2
  /\ activeSessionId = last.id
  /\ last.id \in DOMAIN sessions
  /\ agentSessions[last.name] = last.id

(* The process id owns the live session of its agent name.                 *)
Connected(id) ==
  /\ procs[id].name \in DOMAIN agentSessions
  /\ agentSessions[procs[id].name] = id
  /\ id \in DOMAIN sessions
  /\ id \in connections

(* C16: when the process of a connected agent closes without a             *)
(* disconnectAgent, the coordinator ends as after disconnectAgent: the     *)
(* handle is out of the supervisor's table, the connection entry is        *)
(* removed, the session is out of both maps, the active-session pointer    *)
(* is cleared if it pointed there, and agent-disconnected,                 *)
(* active-session-changed(null) and agent-closed are emitted.              *)
C16_ClosureCleansUpLikeDisconnect ==
  [][\A id \in Ids :
       (procs[id].st = "run" /\ Connected(id) /\ ProcessCloses(id)) =>
         /\ id \notin DOMAIN agents'
         /\ id \notin connections'
         /\ id \notin DOMAIN sessions'
         /\ procs[id].name \notin DOMAIN agentSessions'
         /\ activeSessionId' = IF activeSessionId = id THEN NoSession ELSE activeSessionId
         /\ emitted' = <<Ev("agent-disconnected", procs[id].name, NoSession),
                         Ev("active-session-changed", NoName, NoSession),
                         Ev("agent-closed", procs[id].name, id)>>]_vars

(* C17: disconnectAgent(name) for a connected agent kills its process,     *)
(* removes its connection entry and its session from both maps, clears     *)
(* the active-session pointer exactly when it pointed at that session,     *)
(* and emits agent-disconnected(name) then active-session-changed(null).   *)
C17_DisconnectCleansUp ==
  [][\A n \in Names :
       (HasLiveSession(Cur, n) /\ DisconnectAgent(n)) =>
         LET sid == agentSessions[n]
             aid == sessions[sid].agentId
         IN /\ aid \notin DOMAIN agents'
            /\ procs'[aid].st \in {"killed", "closed"}
            /\ (procs[aid].st = "run" => procs'[aid].st = "killed")
            /\ aid \notin connections'
            /\ sid \notin DOMAIN sessions'
            /\ n \notin DOMAIN agentSessions'
            /\ activeSessionId' = IF activeSessionId = sid THEN NoSession ELSE activeSessionId
            /\ emitted' = <<Ev("agent-disconnected", n, NoSession),
                            Ev("active-session-changed", NoName, NoSession)>>]_vars

(* disconnectAgent has just run for a connected agent whose session was    *)
(* not the active one: the pointer still names the other agent's session.  *)
C17_Witness ==
  /\ last.op = "disconnect" /\ last.res = "done"
  /\ emitted = <<Ev("agent-disconnected", last.name, NoSession),
                 Ev("active-session-changed", NoName, NoSession)>>
  /\ activeSessionId # NoSession
  /\ \E id \in Ids : procs[id].name = last.name /\ procs[id].st = "killed"

HasActiveSession == activeSessionId # NoSession /\ activeSessionId \in DOMAIN sessions

(* C18: newConversation() with an active session emits agent-disconnected  *)
(* and active-session-changed(null) for the old session, then clear-chat,  *)
(* and only then spawns the new process; the events of the new session     *)
(* come with the registration, in a later step, so clear-chat never        *)
(* follows one of them.                                                    *)
C18_ClearChatBeforeReconnect ==
  [][(HasActiveSession /\ CallNewConversation) =>
       LET n == sessions[activeSessionId].agentName IN
       /\ emitted' = <<Ev("agent-disconnected", n, NoSession),
                       Ev("active-session-changed", NoName, NoSession),
                       Ev("clear-chat", NoName, NoSession)>>
       /\ activeSessionId \notin DOMAIN sessions'
       /\ nextId' = nextId + 1
       /\ procs'[nextId] = [name |-> n, st |-> "run"]
       /\ calls'[nextId].pc = "initialize"
       /\ n \notin DOMAIN agentSessions']_vars

(* newConversation has just run: the old session is gone, clear-chat is    *)
(* the last event and the new process is in its handshake.                 *)
C18_Witness ==
  /\ Len(emitted) = 3
  /\ emitted[3].ev = "clear-chat"
  /\ emitted[1].ev = "agent-disconnected"
  /\ \E c \in Ids : calls[c].pc = "initialize" /\ procs[c].name = emitted[1].name
  /\ activeSessionId = NoSession

----------------------------------------------------------------------------
(* PermissionHandler *)

(* The option lists an agent offers (option ids are the positions).        *)
OptionLists ==
  { <<"reject_once">>,
    <<"allow_once", "reject_once">>,
    <<"reject_once", "allow_always", "allow_once">> }

(* The values of acp.autoApprovePermissions a user may have set.           *)
Settings == {"ask", "allowAll", "all"}

IsAllow(kind) == kind \in {"allow_once", "allow_always"}

(* A variant of the search that keeps the last allow option.               *)
FirstAllowLast(opts) ==
  IF \E i \in DOMAIN opts : IsAllow(opts[i])
  THEN CHOOSE i \in DOMAIN opts : IsAllow(opts[i]) /\ \A j \in (i + 1)..Len(opts) : ~IsAllow(opts[j])
  ELSE 0

(* params.options.find(o => allow kind): the first position, 0 for none.   *)
FirstAllow(opts) ==
  IF \E i \in DOMAIN opts : IsAllow(opts[i])
  THEN CHOOSE i \in DOMAIN opts : IsAllow(opts[i]) /\ \A j \in 1..(i - 1) : ~IsAllow(opts[j])
  ELSE 0

(* params.options.map(...): one QuickPick item per offered option, in the  *)
(* offered order.                                                          *)
QuickPickItems(opts) == [i \in DOMAIN opts |-> [description |-> opts[i], optionId |-> i]]

Selected(i) == [outcome |-> "selected", optionId |-> i]
Cancelled == [outcome |-> "cancelled", optionId |-> 0]
Pending == [outcome |-> "-", optionId |-> 0]

(* requestPermission(params) up to its return or its await of              *)
(* showQuickPick: st is done (resolved), prompt (the chooser is open for   *)
(* it) or failed (rejected).                                               *)
requestPermission(setting, opts) ==
  IF setting = "all" /\ FirstAllow(opts) # 0
  THEN [opts |-> opts, st |-> "done", result |-> Selected(FirstAllow(opts)),
        prompted |-> FALSE, items |-> <<>>]
  ELSE [opts |-> opts, st |-> "prompt", result |-> Pending,
        prompted |-> TRUE, items |-> QuickPickItems(opts)]

(* requestPermission after showQuickPick settled: sel is the position      *)
(* picked, 0 for a dismissed chooser, -1 for a chooser that threw.         *)
afterQuickPick(req, sel) ==
  IF sel = -1 THEN [req EXCEPT !.st = "failed"]
  ELSE IF sel = 0 THEN [req EXCEPT !.st = "done", !.result = Cancelled]
  ELSE [req EXCEPT !.st = "done", !.result = Selected(sel)]

Prompts == {i \in DOMAIN permReqs : permReqs[i].st = "prompt"}

PermInit ==
  /\ autoApprove \in Settings
  /\ permReqs = <<>>
  /\ permOrder = <<>>

IdlePerm == UNCHANGED <<sessVars, termVars, extVars, amVars, updVars, tapVars, fsVars>>

(* The agent sends session/request_permission; AcpClientImpl hands it to   *)
(* the handler at once, whatever is still pending.                         *)
RequestPermission ==
  /\ Len(permReqs) < MaxReqs
  /\ \E opts \in OptionLists :
       LET r == requestPermission(autoApprove, opts) IN
       /\ permReqs' = Append(permReqs, r)
       /\ permOrder' = IF r.st = "done" THEN Append(permOrder, Len(permReqs) + 1) ELSE permOrder
  /\ UNCHANGED autoApprove
  /\ IdlePerm

(* The user picks an option of an open chooser, or dismisses it.           *)
ChooserSettles ==
  /\ \E i \in Prompts, sel \in 0..3 :
       /\ sel <= Len(permReqs[i].opts)
       /\ permReqs' = [permReqs EXCEPT ![i] = afterQuickPick(@, sel)]
       /\ permOrder' = Append(permOrder, i)
  /\ UNCHANGED autoApprove
  /\ IdlePerm

(* showQuickPick rejects.                                                  *)
ChooserFails ==
  /\ \E i \in Prompts :
       /\ permReqs' = [permReqs EXCEPT ![i] = afterQuickPick(@, -1)]
       /\ permOrder' = Append(permOrder, i)
  /\ UNCHANGED autoApprove
  /\ IdlePerm

NextPerm ==
  \/ RequestPermission
  \/ ChooserSettles
  \/ ChooserFails

InitPerm == PermInit /\ SessInit /\ TermIdle /\ HostActive /\ AmInit /\ UpdInit /\ TapInit /\ FsInit
SpecPerm == InitPerm /\ [][NextPerm]_vars

(* C3: with auto-approve off, at most one chooser prompt is outstanding at *)
(* any moment: a request is not presented before every earlier request has *)
(* resolved.                                                               *)
C3_OnePromptOutstanding ==
  autoApprove = "ask" =>
    /\ Cardinality(Prompts) <= 1
    /\ \A i \in Prompts : \A j \in 1..(i - 1) : permReqs[j].st # "prompt"

(* C4: outcomes are delivered in submission order: a request's outcome is  *)
(* never delivered before the outcome of a request submitted earlier.      *)
C4_DeliveredInSubmissionOrder ==
  \A i, j \in DOMAIN permOrder : i < j => permOrder[i] < permOrder[j]

(* C11: with auto-approve configured, a request resolves without a prompt  *)
(* exactly when an allow option is offered, and then to the first one in   *)
(* the offered order; otherwise every offered option goes to the chooser   *)
(* and the request is cancelled or denied only by the chooser's answer.    *)
C11_AutoApproveFirstAllow ==
  autoApprove = "all" =>
    \A i \in DOMAIN permReqs :
      LET r == permReqs[i]
          HasAllow == \E k \in DOMAIN r.opts : IsAllow(r.opts[k])
      IN /\ ~r.prompted <=> HasAllow
         /\ ~r.prompted =>
              /\ r.st = "done"
              /\ r.result.outcome = "selected"
              /\ IsAllow(r.opts[r.result.optionId])
              /\ \A k \in 1..(r.result.optionId - 1) : ~IsAllow(r.opts[k])
         /\ r.prompted =>
              /\ Len(r.items) = Len(r.opts)
              /\ \A k \in DOMAIN r.opts : r.items[k].optionId = k
         /\ (r.st = "done" /\ r.result = Cancelled) => r.prompted

(* Auto-approve picked the second of three options, the first allow one,   *)
(* and another request with no allow option went to the chooser.           *)
C11_Witness ==
  /\ autoApprove = "all"
  /\ \E i \in DOMAIN permReqs :
       /\ ~permReqs[i].prompted
       /\ Len(permReqs[i].opts) = 3
       /\ permReqs[i].result = Selected(2)
  /\ \E i \in DOMAIN permReqs : permReqs[i].prompted /\ permReqs[i].st = "done"

(* C12: a failure while a request is being resolved ends in the outcome    *)
(* cancelled: requestPermission never rejects.                             *)
C12_FailureBecomesCancelled ==
  \A i \in DOMAIN permReqs : permReqs[i].st # "failed"

(* C13: with the setting at its documented value allowAll, a request that  *)
(* offers an allow option is answered with an allow option and no prompt.  *)
C13_AllowAllAutoApproves ==
  autoApprove = "allowAll" =>
    \A i \in DOMAIN permReqs :
      (\E k \in DOMAIN permReqs[i].opts : IsAllow(permReqs[i].opts[k])) =>
        /\ ~permReqs[i].prompted
        /\ permReqs[i].result.outcome = "selected"
        /\ IsAllow(permReqs[i].opts[permReqs[i].result.optionId])

----------------------------------------------------------------------------
(* TerminalHandler *)

(* Text.  A Buffer is a sequence of bytes; a JavaScript string is a        *)
(* sequence of UTF-16 code units.                                          *)
Replacement == 65533
IsHigh(u) == u >= 55296 /\ u <= 56319
IsLow(u) == u >= 56320 /\ u <= 57343
IsCont(b) == b >= 128 /\ b <= 191

(* How many continuation bytes a lead byte announces (0: none, or no lead).*)
Need(b) == IF b >= 240 THEN 3 ELSE IF b >= 224 THEN 2 ELSE IF b >= 192 THEN 1 ELSE 0

(* The continuation bytes that follow position i, at most k of them.       *)
RECURSIVE ContRun(_, _, _)
ContRun(bytes, i, k) ==
  IF k = 0 \/ i > Len(bytes) \/ ~IsCont(bytes[i]) THEN 0
  ELSE 1 + ContRun(bytes, i + 1, k - 1)

(* The code point of a complete sequence starting at i with k continuations*)
CodePoint(bytes, i, k) ==
  CASE k = 1 -> (bytes[i] - 192) * 64 + (bytes[i + 1] - 128)
    [] k = 2 -> (bytes[i] - 224) * 4096 + (bytes[i + 1] - 128) * 64 + (bytes[i + 2] - 128)
    [] k = 3 -> (bytes[i] - 240) * 262144 + (bytes[i + 1] - 128) * 4096
                + (bytes[i + 2] - 128) * 64 + (bytes[i + 3] - 128)

(* A code point as UTF-16 code units.                                      *)
Units(cp) ==
  IF cp < 65536 THEN <<cp>>
  ELSE <<55296 + ((cp - 65536) \div 1024), 56320 + ((cp - 65536) % 1024)>>

(* data.toString(): UTF-8 decoding of one chunk on its own.  A sequence    *)
(* the chunk cuts short, and a continuation byte without its lead, decode  *)
(* to U+FFFD.                                                              *)
RECURSIVE DecodeFrom(_, _)
DecodeFrom(bytes, i) ==
  IF i > Len(bytes) THEN <<>>
  ELSE LET b == bytes[i] IN
    IF b < 128 THEN <<b>> \o DecodeFrom(bytes, i + 1)
    ELSE IF Need(b) = 0 THEN <<Replacement>> \o DecodeFrom(bytes, i + 1)
    ELSE LET got == ContRun(bytes, i + 1, Need(b)) IN
      IF got = Need(b)
      THEN Units(CodePoint(bytes, i, got)) \o DecodeFrom(bytes, i + 1 + got)
      ELSE <<Replacement>> \o DecodeFrom(bytes, i + 1 + got)

toString(bytes) == DecodeFrom(bytes, 1)

(* UTF-8 of a code point below 65536.                                      *)
Utf8(cp) ==
  IF cp < 128 THEN <<cp>>
  ELSE IF cp < 2048 THEN <<192 + (cp \div 64), 128 + (cp % 64)>>
  ELSE <<224 + (cp \div 4096), 128 + ((cp \div 64) % 64), 128 + (cp % 64)>>

(* The UTF-8 encoding of a string (Buffer.from(s, 'utf-8')): a surrogate   *)
(* pair is one 4-byte sequence, a surrogate on its own encodes as U+FFFD.  *)
RECURSIVE EncodeFrom(_, _)
EncodeFrom(s, i) ==
  IF i > Len(s) THEN <<>>
  ELSE IF IsHigh(s[i]) /\ i < Len(s) /\ IsLow(s[i + 1])
  THEN LET cp == 65536 + (s[i] - 55296) * 1024 + (s[i + 1] - 56320) IN
       <<240 + (cp \div 262144), 128 + ((cp \div 4096) % 64),
         128 + ((cp \div 64) % 64), 128 + (cp % 64)>> \o EncodeFrom(s, i + 2)
  ELSE IF IsHigh(s[i]) \/ IsLow(s[i]) THEN Utf8(Replacement) \o EncodeFrom(s, i + 1)
  ELSE Utf8(s[i]) \o EncodeFrom(s, i + 1)

Encode(s) == EncodeFrom(s, 1)

(* Buffer.byteLength(s, 'utf-8') *)
byteLength(s) == Len(Encode(s))

(* The loop of appendOutput: the number of code units to drop, counting    *)
(* Buffer.byteLength(output[i]) for one code unit at a time until the      *)
(* count reaches the excess; 0 when it never does.                         *)
RECURSIVE CutFrom(_, _, _, _)
CutFrom(output, i, bytes, excess) ==
  IF i > Len(output) THEN 0
  ELSE IF bytes + byteLength(<<output[i]>>) >= excess THEN i
  ELSE CutFrom(output, i + 1, bytes + byteLength(<<output[i]>>), excess)

cutPoint(output, excess) == CutFrom(output, 1, 0, excess)

(* A variant of appendOutput whose flag follows the last append only.      *)
appendOutputForgets(ch, data, limit) ==
  LET joined == ch.output \o toString(data)
      len == byteLength(joined)
  IN IF len > limit
     THEN [ch EXCEPT !.output = SubSeq(joined, cutPoint(joined, len - limit) + 1, Len(joined)),
                     !.truncated = TRUE]
     ELSE [ch EXCEPT !.output = joined, !.truncated = FALSE]

(* appendOutput(data) on the closure state ch = [output, truncated, ...].  *)
appendOutput(ch, data, limit) ==
  LET joined == ch.output \o toString(data)
      len == byteLength(joined)
  IN IF len > limit
     THEN [ch EXCEPT !.output = SubSeq(joined, cutPoint(joined, len - limit) + 1, Len(joined)),
                     !.truncated = TRUE]
     ELSE [ch EXCEPT !.output = joined]

(* What a command writes: a cyclic pattern of pieces, each piece the bytes *)
(* of one write or of one part of a write.  The last pattern is a 2-byte   *)
(* character that the pipe delivers in two halves.                         *)
Patterns ==
  << <<<<97>>, <<98>>>>,
     <<<<226, 130, 172>>, <<98>>>>,
     <<<<240, 159, 152, 128>>>>,
     <<<<97>>, <<195>>, <<169>>>> >>

SingleByte(p) == \A i \in DOMAIN Patterns[p] : \A j \in DOMAIN Patterns[p][i] : Patterns[p][i][j] < 128

Piece(p, k) == Patterns[p][((k - 1) % Len(Patterns[p])) + 1]

(* The bytes of pieces from..to of pattern p.                              *)
RECURSIVE Written(_, _, _)
Written(p, from, to) ==
  IF from > to THEN <<>> ELSE Piece(p, from) \o Written(p, from + 1, to)

DefaultOutputByteLimit == 1048576
Limits == (0..MaxLimit) \cup {DefaultOutputByteLimit}

TotalOut == LET RECURSIVE Sum(_)
                Sum(t) == IF t = 0 THEN 0 ELSE children[t].pos + Sum(t - 1)
            IN Sum(termNextId - 1)

(* The record of the terminalOutput calls: the terminal and the response   *)
(* of the last one (found: FALSE for 'Terminal   *)
(* not found'), whether the response before it for the same terminal       *)
(* reported truncated, and per terminal whether its last response did.     *)
NoResp == [t |-> 0, found |-> FALSE, output |-> <<>>, truncated |-> FALSE,
           exited |-> FALSE, prevTruncated |-> FALSE, reported |-> {}]

TermInit == TermIdle

IdleTerm == UNCHANGED <<sessVars, permVars, extVars, amVars, updVars, tapVars, fsVars>>

(* createTerminal(params): spawn the child, register the listeners and the *)
(* timer, store the managed terminal.                                      *)
createTerminal(limit, p) ==
  /\ termNextId <= MaxTerms
  /\ children' = Put(children, termNextId,
                     [output |-> <<>>, truncated |-> FALSE, st |-> "run",
                      pattern |-> p, pos |-> 0, limit |-> limit,
                      exit |-> NoExit])
  /\ terminals' = Put(terminals, termNextId,
                      [output |-> <<>>, truncated |-> FALSE,
                       outputByteLimit |-> limit, exited |-> FALSE,
                       exit |-> NoExit])
  /\ termNextId' = termNextId + 1
  /\ UNCHANGED <<termResp, termOp, termWait>>
  /\ IdleTerm

(* The agent asks for a terminal, with some command and output limit.      *)
CreateTerminal == \E limit \in Limits, p \in DOMAIN Patterns : createTerminal(limit, p)

(* The agent asks for a terminal without an outputByteLimit.               *)
CreateTerminalDefault == createTerminal(DefaultOutputByteLimit, 1)

(* The limit appendOutput closes over: the one createTerminal computed.    *)
LimitOf(t) == children[t].limit

(* A 'data' event of the child's stdout or stderr: k pieces arrive as one  *)
(* chunk and appendOutput runs on it.                                      *)
ChildData ==
  /\ \E t \in DOMAIN children, k \in 1..MaxChunk :
       /\ children[t].st # "closed"
       /\ TotalOut + k <= MaxOut
       /\ LET ch == children[t]
              data == Written(ch.pattern, ch.pos + 1, ch.pos + k)
          IN children' = [children EXCEPT ![t] = [appendOutput(ch, data, LimitOf(t))
                                                    EXCEPT !.pos = ch.pos + k]]
  /\ UNCHANGED <<terminals, termNextId, termResp, termOp, termWait>>
  /\ IdleTerm

(* The 100 ms timer of createTerminal: managed.output = output;            *)
(* managed.truncated = truncated.                                          *)
syncManaged(m, ch) == [m EXCEPT !.output = ch.output, !.truncated = ch.truncated]

TimerTick ==
  /\ \E t \in DOMAIN terminals :
       /\ children[t].st # "closed"
       /\ terminals' = [terminals EXCEPT ![t] = syncManaged(@, children[t])]
  /\ UNCHANGED <<children, termNextId, termResp, termOp, termWait>>
  /\ IdleTerm

(* A variant of the close listeners that leaves the copy to the timer.     *)
onCloseNoCopy(m, ch) == [m EXCEPT !.exited = TRUE]

(* What a child closes with: an exit code, or the signal that ended it if  *)
(* one was sent to it.                                                     *)
ExitStatuses(st) ==
  {[exitCode |-> "0", signal |-> Null]} \cup
  (IF st = "term" THEN {[exitCode |-> Null, signal |-> "SIGTERM"]} ELSE {})

(* The child's 'close' event: the listener of exitPromise marks the        *)
(* terminal exited if it is still in the table, the second listener copies *)
(* the output and clears the timer.                                        *)
onClose(m, ch) == [syncManaged(m, ch) EXCEPT !.exited = TRUE]

(* The listener of exitPromise on a managed terminal that is still in the  *)
(* table: managed.exitCode = code; managed.exitSignal = signal.  A pending *)
(* waitForTerminalExit holds the same object.                              *)
recordExit(m, status) == [m EXCEPT !.exit = status]

onChildClose(t, status) ==
  /\ children[t].st # "closed"
  /\ children' = [children EXCEPT ![t].st = "closed", ![t].exit = status]
  /\ terminals' = IF t \in DOMAIN terminals
                  THEN [terminals EXCEPT ![t] = recordExit(onClose(@, children[t]), status)]
                  ELSE terminals
  /\ termWait' = IF termWait.pc = "pending" /\ termWait.t = t /\ t \in DOMAIN terminals
                 THEN recordExit(termWait, status)
                 ELSE termWait
  /\ UNCHANGED <<termNextId, termResp, termOp>>
  /\ IdleTerm

(* A child closes, with an exit code or from the signal sent to it.        *)
ChildCloses ==
  \E t \in DOMAIN children :
    \E status \in ExitStatuses(children[t].st) : onChildClose(t, status)

(* A child closes with an exit code: its command has ended.                *)
ChildExits ==
  \E t \in DOMAIN children : onChildClose(t, [exitCode |-> "0", signal |-> Null])

(* terminalOutput(params): the managed copy of the output, or an error for *)
(* an id that is not in the table.                                         *)
terminalOutput(t, prev) ==
  IF t \in DOMAIN terminals
  THEN [t |-> t, found |-> TRUE,
        output |-> terminals[t].output,
        truncated |-> terminals[t].truncated,
        exited |-> terminals[t].exited,
        prevTruncated |-> t \in prev.reported,
        reported |-> IF terminals[t].truncated THEN prev.reported \cup {t}
                     ELSE prev.reported \ {t}]
  ELSE [NoResp EXCEPT !.t = t, !.reported = prev.reported \ {t}]

TerminalOutput ==
  /\ \E t \in DOMAIN children : termResp' = terminalOutput(t, termResp)
  /\ UNCHANGED <<terminals, children, termNextId, termOp, termWait>>
  /\ IdleTerm

(* releaseTerminal(params): an error for an id that is not in the table;   *)
(* otherwise SIGTERM to the child unless the terminal is marked exited,    *)
(* then the entry is deleted.  A signalled child still runs until its      *)
(* close event.                                                            *)
releaseTerminal(t) ==
  IF t \in DOMAIN terminals
  THEN [res |-> "ok", tm |-> Remove(terminals, t),
        ch |-> IF terminals[t].exited THEN children
               ELSE [children EXCEPT ![t].st = "term"]]
  ELSE [res |-> "terminal-not-found", tm |-> terminals, ch |-> children]

ReleaseTerminal ==
  /\ \E t \in DOMAIN terminals :
       /\ terminals' = releaseTerminal(t).tm
       /\ children' = releaseTerminal(t).ch
  /\ UNCHANGED <<termNextId, termResp, termOp, termWait>>
  /\ IdleTerm

NextTerm ==
  \/ CreateTerminal
  \/ ChildData
  \/ TimerTick
  \/ ChildExits
  \/ TerminalOutput
  \/ ReleaseTerminal

InitTerm == TermInit /\ SessInit /\ PermIdle /\ HostActive /\ AmInit /\ UpdInit /\ TapInit /\ FsInit
SpecTerm == InitTerm /\ [][NextTerm]_vars

(***************************************************************************)
(* Properties of the captured output.                                      *)
(***************************************************************************)

(* C8: after any sequence of data chunks the UTF-8 byte length of a        *)
(* terminal's captured output never exceeds its outputByteLimit, whatever  *)
(* the width of the characters.                                            *)
C8_OutputWithinLimit ==
  \A t \in DOMAIN children : byteLength(children[t].output) <= LimitOf(t)

(* C9: once a terminalOutput response for a terminal has reported          *)
(* truncated, the next response for that terminal reports it too, as long  *)
(* as the terminal is in the table.                                        *)
C9_TruncatedSticks ==
  (termResp.found /\ termResp.prevTruncated) => termResp.truncated

(* Two consecutive responses report truncated although the buffer has      *)
(* fallen below the limit in between.                                      *)
C9_Witness ==
  /\ termResp.found /\ termResp.prevTruncated /\ termResp.truncated
  /\ termResp.output # <<>>
  /\ byteLength(termResp.output) < LimitOf(termResp.t)

Last(s, n) == SubSeq(s, Len(s) - n + 1, Len(s))

(* All the bytes the process of terminal t has written.                    *)
Emitted(t) == Written(children[t].pattern, 1, children[t].pos)

(* The last response was made after the process of its terminal closed,    *)
(* and the process wrote more bytes than the limit.                        *)
ReadAfterCloseOverLimit ==
  /\ termResp.found /\ termResp.exited
  /\ Len(Emitted(termResp.t)) > LimitOf(termResp.t)

(* C10 as stated: if the command wrote more bytes than outputByteLimit,    *)
(* the terminalOutput call after the close returns exactly the last        *)
(* outputByteLimit bytes of what was written, and truncated = true.        *)
C10_ExactlyLastBytes ==
  ReadAfterCloseOverLimit =>
    /\ Encode(termResp.output) = Last(Emitted(termResp.t), LimitOf(termResp.t))
    /\ termResp.truncated

(* C10, amended: the same for output made of single-byte characters.       *)
C10_ExactlyLastBytesSingleByte ==
  (ReadAfterCloseOverLimit /\ SingleByte(children[termResp.t].pattern)) =>
    /\ Encode(termResp.output) = Last(Emitted(termResp.t), LimitOf(termResp.t))
    /\ termResp.truncated

C10_Witness ==
  /\ ReadAfterCloseOverLimit
  /\ SingleByte(children[termResp.t].pattern)
  /\ LimitOf(termResp.t) > 0
  /\ termResp.truncated
  /\ Len(termResp.output) = LimitOf(termResp.t)

----------------------------------------------------------------------------
(* Terminal operations by id *)

(* The ids a caller may pass: those issued so far and one never issued.    *)
TermIds == 1..(MaxTerms + 1)

(* A killTerminal that answers {} for an id that is not in the table.      *)
killTerminalSilent(t) ==
  IF t \in DOMAIN terminals
  THEN [res |-> "ok", tm |-> terminals,
        ch |-> [children EXCEPT ![t].st = IF @ = "run" THEN "term" ELSE @]]
  ELSE [res |-> "ok", tm |-> terminals, ch |-> children]

(* killTerminal(params): an error for an id that is not in the table,      *)
(* otherwise SIGTERM to the child (no effect on one that has closed).      *)
killTerminal(t) ==
  IF t \in DOMAIN terminals
  THEN [res |-> "ok", tm |-> terminals,
        ch |-> [children EXCEPT ![t].st = IF @ = "run" THEN "term" ELSE @]]
  ELSE [res |-> "terminal-not-found", tm |-> terminals, ch |-> children]

(* waitForTerminalExit(params) up to its await: an error for an id that is *)
(* not in the table, otherwise it awaits exitPromise, which the close      *)
(* event of the child resolves.                                            *)
waitForTerminalExit(t) ==
  IF t \in DOMAIN terminals
  THEN [res |-> IF children[t].st = "closed" THEN "exit-status" ELSE "pending",
        tm |-> terminals, ch |-> children]
  ELSE [res |-> "terminal-not-found", tm |-> terminals, ch |-> children]

(* What waitForTerminalExit returns after its await: exitCode and          *)
(* exitSignal of the ManagedTerminal object it looked up, which the close  *)
(* listener has set only if the terminal was still in the table.           *)
exitResponse(w) == [w EXCEPT !.pc = "resolved"]

(* waitForTerminalExit on a known terminal: it looks the object up and     *)
(* awaits exitPromise, going on at once when the child has closed.         *)
awaitExit(t) ==
  LET w == [t |-> t, pc |-> "pending", exit |-> terminals[t].exit]
  IN IF children[t].st = "closed" THEN exitResponse(w) ELSE w

(* terminalOutput as a call by id; the response is kept in termResp.       *)
terminalOutputById(t) ==
  [res |-> IF terminalOutput(t, termResp).found THEN "ok" ELSE "terminal-not-found",
   tm |-> terminals, ch |-> children]

TermOps == {"terminalOutput", "waitForTerminalExit", "killTerminal", "releaseTerminal"}

TermCall(op, t) ==
  CASE op = "terminalOutput" -> terminalOutputById(t)
    [] op = "waitForTerminalExit" -> waitForTerminalExit(t)
    [] op = "killTerminal" -> killTerminal(t)
    [] op = "releaseTerminal" -> releaseTerminal(t)

(* The agent calls one of the four operations with some terminal id.       *)
TerminalCall ==
  /\ \E op \in TermOps, t \in TermIds :
       /\ terminals' = TermCall(op, t).tm
       /\ children' = TermCall(op, t).ch
       /\ termOp' = [op |-> op, t |-> t, res |-> TermCall(op, t).res]
       /\ termResp' = IF op = "terminalOutput" THEN terminalOutput(t, termResp) ELSE termResp
       /\ termWait' = IF op = "waitForTerminalExit" /\ t \in DOMAIN terminals
                      THEN awaitExit(t)
                      ELSE termWait
  /\ UNCHANGED termNextId
  /\ IdleTerm

(* exitPromise resolves after the close event: the awaiting                *)
(* waitForTerminalExit returns the exit status.                            *)
WaitResolves ==
  /\ termWait.pc = "pending"
  /\ children[termWait.t].st = "closed"
  /\ termWait' = exitResponse(termWait)
  /\ termOp' = IF /\ termOp.op = "waitForTerminalExit"
                  /\ termOp.t = termWait.t
                  /\ termOp.res = "pending"
               THEN [termOp EXCEPT !.res = "exit-status"]
               ELSE termOp
  /\ UNCHANGED <<terminals, children, termNextId, termResp>>
  /\ IdleTerm

(* The operations by id with commands that write nothing: what the child  *)
(* writes is the subject of SpecTerm.                                      *)
NextTermOps ==
  \/ CreateTerminalDefault
  \/ ChildCloses
  \/ TerminalCall
  \/ WaitResolves

SpecTermOps == InitTerm /\ [][NextTermOps]_vars

----------------------------------------------------------------------------
(* AgentManager: the child processes, the signals and the kill timer *)

IdleAm == UNCHANGED <<sessVars, permVars, termVars, extVars, updVars, tapVars, fsVars>>

(* spawnAgent(name, config): the id is agent_<nextId++>, the instance      *)
(* enters the table.                                                       *)
AmSpawn ==
  /\ amNextId <= MaxSpawn
  /\ amAgents' = amAgents \cup {amNextId}
  /\ amProcs' = [amProcs EXCEPT ![amNextId].st = "run"]
  /\ amOp' = [op |-> "spawnAgent", id |-> amNextId, res |-> "instance", signal |-> FALSE]
  /\ amNextId' = amNextId + 1
  /\ IdleAm

(* A killAgent that leaves the instance in the table.                      *)
amKillAgentKeeps(id) ==
  IF id \notin amAgents
  THEN [res |-> "false", signal |-> FALSE, agents |-> amAgents, procs |-> amProcs]
  ELSE [res |-> "true", signal |-> TRUE, agents |-> amAgents,
        procs |-> [amProcs EXCEPT ![id].sigterm = TRUE, ![id].timer = "armed"]]

(* killAgent(agentId): false, and nothing else, if the id is not in the    *)
(* table; otherwise SIGTERM is sent, the 5 s timer is armed, the instance  *)
(* leaves the table and true is returned.                                  *)
amKillAgent(id) ==
  IF id \notin amAgents
  THEN [res |-> "false", signal |-> FALSE, agents |-> amAgents, procs |-> amProcs]
  ELSE [res |-> "true", signal |-> TRUE, agents |-> amAgents \ {id},
        procs |-> [amProcs EXCEPT ![id].sigterm = TRUE, ![id].timer = "armed"]]

AmKill ==
  /\ \E id \in Ids :
       /\ amAgents' = amKillAgent(id).agents
       /\ amProcs' = amKillAgent(id).procs
       /\ amOp' = [op |-> "killAgent", id |-> id, res |-> amKillAgent(id).res,
                   signal |-> amKillAgent(id).signal]
  /\ UNCHANGED amNextId
  /\ IdleAm

(* The child exits and its 'close' handler deletes the instance.  It exits *)
(* with a code (on its own, or handling SIGTERM), or is terminated by a    *)
(* signal that was sent to it: then exitCode stays null and signalCode is  *)
(* set.  Nothing survives SIGKILL.                                         *)
AmExit ==
  /\ \E id \in Ids, how \in {"code", "signal"} :
       /\ amProcs[id].st = "run"
       /\ how = "code" => amProcs[id].sigkill = "none"
       /\ how = "signal" => amProcs[id].sigterm
       /\ amProcs' = [amProcs EXCEPT
            ![id].st = "exited",
            ![id].exitCode = IF how = "code" THEN "0" ELSE Null,
            ![id].signalCode = IF how = "code" THEN Null
                               ELSE IF amProcs[id].sigkill = "sent" THEN "SIGKILL"
                               ELSE "SIGTERM"]
       /\ amAgents' = amAgents \ {id}
  /\ amOp' = NoAmOp
  /\ UNCHANGED amNextId
  /\ IdleAm

(* The callback of setTimeout(..., 5000): process.kill('SIGKILL') is       *)
(* called if instance.process.exitCode === null.                           *)
onGraceTimeout(p) ==
  [p EXCEPT !.timer = "fired",
            !.sigkill = IF p.exitCode = Null
                        THEN (IF p.st = "run" THEN "sent" ELSE "after-exit")
                        ELSE "none"]

AmTimer ==
  /\ \E id \in Ids :
       /\ amProcs[id].timer = "armed"
       /\ amProcs' = [amProcs EXCEPT ![id] = onGraceTimeout(@)]
  /\ amOp' = NoAmOp
  /\ UNCHANGED <<amAgents, amNextId>>
  /\ IdleAm

NextAm ==
  \/ AmSpawn
  \/ AmKill
  \/ AmExit
  \/ AmTimer

SpecAm == Init /\ [][NextAm]_vars

(* C27: killAgent on a live handle sends SIGTERM at once, and the timer    *)
(* sends SIGKILL only to a process that has not exited by then: one that   *)
(* has exited within the grace period, by an exit code or by the terminate *)
(* signal, gets no SIGKILL call.                                           *)
C27_ForceKillOnlyIfRunning ==
  /\ \A id \in Ids : amProcs[id].timer # "off" => amProcs[id].sigterm
  /\ \A id \in Ids : amProcs[id].sigkill # "after-exit"

(* C28: every spawnAgent returns an id never issued before, and an         *)
(* instance is in the table exactly from its spawn until the first of      *)
(* killAgent(id) and the close event of its process; after that            *)
(* getAgent(id) finds nothing and killAgent(id) returns false and sends no *)
(* signal.                                                                 *)
C28_HandleLifetime ==
  [][/\ amNextId' # amNextId
        => /\ amOp'.op = "spawnAgent" /\ amOp'.id = amNextId
           /\ amProcs[amNextId].st = "none"
           /\ amNextId' > amNextId
           /\ amNextId \in amAgents'
     /\ \A id \in Ids :
          id \in amAgents' <=> (amProcs'[id].st = "run" /\ ~amProcs'[id].sigterm)
     /\ (amOp'.op = "killAgent" /\ amOp' # amOp /\ amOp'.id \notin amAgents)
        => /\ amOp'.res = "false" /\ ~amOp'.signal
           /\ UNCHANGED <<amAgents, amProcs>>]_vars

(* killAgent was called a second time for an id and returned false.        *)
C28_Witness ==
  /\ amOp.op = "killAgent"
  /\ amOp.res = "false"
  /\ amProcs[amOp.id].sigterm
  /\ amOp.id \notin amAgents

----------------------------------------------------------------------------
(* SessionUpdateHandler *)

MaxUpdates == 2

IdleUpd == UNCHANGED <<sessVars, permVars, termVars, extVars, amVars, tapVars, fsVars>>

(* session/update notifications: a session id and the kind of the update.  *)
Updates ==
  { [sessionId |-> 1, update |-> "agent_message_chunk"],
    [sessionId |-> 1, update |-> "tool_call"] }

(* The listeners: listener 2 throws on tool calls, the others return.      *)
Throws(l, u) == l = 2 /\ u.update = "tool_call"

ListenerSet(ls) == {ls[i] : i \in DOMAIN ls}

(* addListener: Set.add keeps the insertion order and ignores a listener   *)
(* that is already in the set.                                             *)
addListener(ls, l) == IF l \in ListenerSet(ls) THEN ls ELSE Append(ls, l)

(* removeListener: Set.delete.                                             *)
removeListener(ls, l) == SelectSeq(ls, LAMBDA x : x # l)

RECURSIVE deliverNoCatch(_, _, _, _)
(* A loop without the try/catch: the first throwing listener ends it.      *)
deliverNoCatch(ls, i, u, acc) ==
  IF i > Len(ls) THEN acc
  ELSE LET r == [acc EXCEPT !.received[ls[i]] = Append(@, u)]
       IN IF Throws(ls[i], u) THEN [r EXCEPT !.threw = TRUE]
          ELSE deliverNoCatch(ls, i + 1, u, r)

RECURSIVE deliver(_, _, _, _)
(* The for-of loop of handleUpdate from position i: each listener is       *)
(* called with the update; what it throws is caught and logged.            *)
deliver(ls, i, u, acc) ==
  IF i > Len(ls) THEN acc
  ELSE deliver(ls, i + 1, u,
               [acc EXCEPT !.received[ls[i]] = Append(@, u),
                           !.caught = @ + (IF Throws(ls[i], u) THEN 1 ELSE 0)])

(* handleUpdate(update).                                                   *)
handleUpdate(ls, u) ==
  deliver(ls, 1, u, [received |-> received, caught |-> 0, threw |-> FALSE])

AddListener ==
  /\ \E l \in ListenerIds : listeners' = addListener(listeners, l)
  /\ UNCHANGED <<received, updOp>>
  /\ IdleUpd

RemoveListener ==
  /\ \E l \in ListenerIds : listeners' = removeListener(listeners, l)
  /\ UNCHANGED <<received, updOp>>
  /\ IdleUpd

(* AcpClientImpl.sessionUpdate(params): the notification is handed to      *)
(* handleUpdate.                                                           *)
SessionUpdate ==
  /\ \A l \in ListenerIds : Len(received[l]) < MaxUpdates
  /\ \E u \in Updates :
       LET r == handleUpdate(listeners, u)
       IN /\ received' = r.received
          /\ updOp' = [update |-> u, threw |-> r.threw, caught |-> r.caught]
  /\ UNCHANGED listeners
  /\ IdleUpd

NextUpd ==
  \/ AddListener
  \/ RemoveListener
  \/ SessionUpdate

SpecUpd == Init /\ [][NextUpd]_vars

(* C29: handleUpdate hands each update, unmodified, exactly once to every  *)
(* listener registered when it is called, and to no other; a listener that *)
(* throws stops neither the delivery to the others nor makes handleUpdate  *)
(* throw.                                                                  *)
C29_EveryListenerOnce ==
  [][(updOp' # updOp \/ received' # received)
     => /\ updOp'.update \in Updates
        /\ ~updOp'.threw
        /\ \A l \in ListenerIds :
             received'[l] = IF l \in ListenerSet(listeners)
                            THEN Append(received[l], updOp'.update)
                            ELSE received[l]]_vars

(* A listener registered after a throwing one received the update.         *)
C29_Witness ==
  /\ updOp.caught >= 1
  /\ Len(listeners) >= 2
  /\ Throws(listeners[1], updOp.update)
  /\ received[listeners[2]] # <<>>
  /\ received[listeners[2]][Len(received[listeners[2]])] = updOp.update

----------------------------------------------------------------------------
(* ConnectionManager.tapStream and logTraffic *)

MaxMsgs == 2

IdleTap == UNCHANGED <<sessVars, permVars, termVars, extVars, amVars, updVars, fsVars>>

(* JSON-RPC messages; Null stands for a key that is absent.                *)
Messages ==
  { [id |-> "1", method |-> "session/prompt", result |-> Null],
    [id |-> Null, method |-> "session/update", result |-> Null],
    [id |-> "1", method |-> Null, result |-> "end_turn"] }

(* The label logTraffic gives a message: request (method and id),          *)
(* notification (method, no id), response (result or error).               *)
Label(msg) ==
  IF msg.method # Null /\ msg.id # Null THEN "REQUEST"
  ELSE IF msg.method # Null THEN "NOTIFICATION"
  ELSE IF msg.result # Null THEN "RESPONSE"
  ELSE ""

(* logTraffic(direction, data): nothing when acp.logTraffic is off,        *)
(* otherwise one line with the direction, the label and the JSON text.     *)
logTraffic(on, direction, data) ==
  IF ~on THEN NoLine
  ELSE [direction |-> direction, label |-> Label(data), json |-> data]

(* A tap that passes on only what it logged.                               *)
transformLoggedOnly(on, direction, chunk) ==
  [line |-> logTraffic(on, direction, chunk),
   out |-> IF on THEN <<chunk>> ELSE <<>>]

(* The transform of sendTap / recvTap: logTraffic, then                    *)
(* controller.enqueue(chunk).                                              *)
transform(on, direction, chunk) ==
  [line |-> logTraffic(on, direction, chunk), out |-> <<chunk>>]

(* A message is written to the tapped stream: by the client to the         *)
(* writable side, or by the agent, arriving on the readable side.          *)
TapWrite ==
  /\ \E d \in Directions, m \in Messages :
       /\ Len(written[d]) < MaxMsgs
       /\ tapState[d] = "open"
       /\ written' = [written EXCEPT ![d] = Append(@, m)]
       /\ pending' = [pending EXCEPT ![d] = Append(@, m)]
  /\ UNCHANGED <<delivered, logTrafficOn, trafficLine, tapState, thrown>>
  /\ IdleTap

(* The transform stream takes the next chunk of a direction; pipeTo hands  *)
(* what it enqueues to the other side.                                     *)
TapTransform ==
  /\ \E d \in Directions :
       /\ pending[d] # <<>>
       /\ tapState[d] = "open"
       /\ LET r == transform(logTrafficOn, d, Head(pending[d]))
          IN /\ pending' = [pending EXCEPT ![d] = Tail(@)]
             /\ delivered' = [delivered EXCEPT ![d] = @ \o r.out]
             /\ trafficLine' = IF r.line # NoLine THEN r.line ELSE trafficLine
  /\ UNCHANGED <<written, logTrafficOn, tapState, thrown>>
  /\ IdleTap

(* The user changes the setting acp.logTraffic.                            *)
SetLogTraffic ==
  /\ logTrafficOn' = ~logTrafficOn
  /\ UNCHANGED <<written, pending, delivered, trafficLine, tapState, thrown>>
  /\ IdleTap

NextTap ==
  \/ TapWrite
  \/ TapTransform
  \/ SetLogTraffic

SpecTap == Init /\ [][NextTap]_vars

(* C30: in each direction the messages the tap has passed on, followed by  *)
(* those still queued at it, are the messages that were written: every     *)
(* message reaches the other side unmodified, once and in its order,       *)
(* whether or not traffic logging is on.                                   *)
C30_TapForwardsUnmodified ==
  \A d \in Directions : written[d] = delivered[d] \o pending[d]

(* Messages went through in both directions while logging was off.         *)
C30_Witness ==
  /\ ~logTrafficOn
  /\ trafficLine = NoLine
  /\ delivered["send"] # <<>>
  /\ delivered["recv"] # <<>>
  /\ delivered["send"] = written["send"]
  /\ Len(delivered["send"]) = MaxMsgs

(***************************************************************************)
(* tapStream when logTraffic throws                                        *)
(***************************************************************************)

(* What the transform stream does with its chunk when logTraffic throws:   *)
(* the transform has no try/catch, so controller.enqueue(chunk) is not     *)
(* reached and the exception leaves transform(); a transform stream whose  *)
(* transform() throws is errored, and the chunks queued at it are dropped. *)
transformThrows(state, queue) ==
  [state |-> "errored", out |-> <<>>, queue |-> <<>>]

(* The transform stream takes the next chunk of a direction and logTraffic *)
(* throws on it (logging is on: with the setting off logTraffic returns    *)
(* before it touches the message or the channel).                          *)
TapObserverThrows ==
  /\ logTrafficOn
  /\ \E d \in Directions :
       /\ pending[d] # <<>>
       /\ tapState[d] = "open"
       /\ LET r == transformThrows(tapState[d], pending[d])
          IN /\ tapState' = [tapState EXCEPT ![d] = r.state]
             /\ pending' = [pending EXCEPT ![d] = r.queue]
             /\ delivered' = [delivered EXCEPT ![d] = @ \o r.out]
             /\ thrown' = [thrown EXCEPT ![d] = TRUE]
  /\ UNCHANGED <<written, logTrafficOn, trafficLine>>
  /\ IdleTap

NextTapFail ==
  \/ TapWrite
  \/ TapTransform
  \/ SetLogTraffic
  \/ TapObserverThrows

SpecTapFail == Init /\ [][NextTapFail]_vars

(* C31: after logTraffic has thrown on a message of a direction, the       *)
(* direction is still open and that message and the later ones are         *)
(* delivered or still queued: the failure of the observer neither errors   *)
(* nor closes the data path, and loses no message.                         *)
C31_ObserverFailureContained ==
  \A d \in Directions :
    thrown[d] => /\ tapState[d] = "open"
                 /\ written[d] = delivered[d] \o pending[d]

(***************************************************************************)
(* FileSystemHandler.readTextFile                                          *)
(***************************************************************************)

MaxContent == 3
MaxLine == 3
MaxCount == 2

IdleFs == UNCHANGED <<sessVars, permVars, termVars, extVars, amVars, updVars, tapVars>>

(* File contents: strings over a letter and the newline.                   *)
Chars == {"a", "\n"}
Contents == UNION {[1..k -> Chars] : k \in 0..MaxContent}

(* The optional parameters line and limit of a ReadTextFileRequest.        *)
Param(v) == [has |-> TRUE, v |-> v]
LineParams == {NoParam} \cup {Param(k) : k \in 1..MaxLine}
LimitParams == {NoParam} \cup {Param(k) : k \in 0..MaxCount}

(* content.split('\n'): the pieces between the newlines, at least one.     *)
RECURSIVE split(_)
split(str) ==
  IF \A i \in 1..Len(str) : str[i] # "\n" THEN <<str>>
  ELSE LET i == CHOOSE k \in 1..Len(str) :
                  str[k] = "\n" /\ \A j \in 1..(k - 1) : str[j] # "\n"
       IN <<SubSeq(str, 1, i - 1)>> \o split(SubSeq(str, i + 1, Len(str)))

(* lines.join('\n').                                                       *)
RECURSIVE join(_)
join(lines) ==
  IF lines = <<>> THEN <<>>
  ELSE IF Len(lines) = 1 THEN lines[1]
  ELSE lines[1] \o <<"\n">> \o join(Tail(lines))

(* lines.slice(start, end) for start, end >= 0: the elements with 0-based  *)
(* index in [start, end), end clamped to the length.                       *)
slice(lines, start, end) ==
  SubSeq(lines, start + 1, IF end < Len(lines) THEN end ELSE Len(lines))

(* readTextFile(params) on a file with the given content: the slicing of   *)
(* lines 109-117; a limit of 0 is falsy and takes the else branch.         *)
readTextFile(content, line, limit) ==
  IF line.has \/ limit.has
  THEN LET lines == split(content)
           startLine == (IF line.has THEN line.v ELSE 1) - 1
           endLine == IF limit.has /\ limit.v # 0
                      THEN startLine + limit.v
                      ELSE Len(lines)
       IN join(slice(lines, startLine, endLine))
  ELSE content

(* The agent asks for a file.                                              *)
ReadTextFile ==
  /\ \E content \in Contents, line \in LineParams, limit \in LimitParams :
       fsOp' = [op |-> "readTextFile", content |-> content, line |-> line,
                limit |-> limit, result |-> readTextFile(content, line, limit)]
  /\ IdleFs

NextFs == ReadTextFile

SpecFs == Init /\ [][NextFs]_vars

(* Lines from..to (1-based) of the content, joined by newlines.         *)
LinesOf(content, from, to) ==
  LET lines == split(content)
      n == Len(lines)
  IN join(SubSeq(lines, from, IF to < n THEN to ELSE n))

(* C32: readTextFile with line L and limit N returns lines L through       *)
(* min(L+N-1, n) joined by newlines, the empty string when N = 0 or L > n; *)
(* with only line, lines L..n; with only limit, lines 1..N; with neither,  *)
(* the whole content.                                                      *)
C32_ReadSlices ==
  fsOp.op = "readTextFile" =>
    LET n == Len(split(fsOp.content))
        L == fsOp.line.v
        N == fsOp.limit.v
    IN fsOp.result =
         IF fsOp.line.has /\ fsOp.limit.has THEN LinesOf(fsOp.content, L, L + N - 1)
         ELSE IF fsOp.line.has THEN LinesOf(fsOp.content, L, n)
         ELSE IF fsOp.limit.has THEN LinesOf(fsOp.content, 1, N)
         ELSE fsOp.content

(***************************************************************************)
(* terminalOutput and the closure's buffer                                 *)
(***************************************************************************)

(* C33: a terminalOutput call on a known terminal returns the output       *)
(* buffer and the truncated flag as appendOutput has left them at the time *)
(* of the call: every chunk the child has delivered before the call is     *)
(* reflected in the response.                                              *)
C33_OutputIsCurrent ==
  [][(termResp' # termResp /\ termResp'.found) =>
       /\ termResp'.output = children[termResp'.t].output
       /\ termResp'.truncated = children[termResp'.t].truncated]_vars

(***************************************************************************)
(* waitForTerminalExit and the exit status                                 *)
(***************************************************************************)

(* C34: a waitForTerminalExit on a known terminal has not returned while   *)
(* the terminal's process runs, and what it returns is the exit code or    *)
(* signal the process closed with, also when releaseTerminal or            *)
(* killTerminal was called while it was pending.                           *)
C34_WaitReturnsExitStatus ==
  termWait.pc = "resolved" =>
    /\ children[termWait.t].st = "closed"
    /\ termWait.exit = children[termWait.t].exit

(***************************************************************************)
(* The terminals of a connection                                           *)
(***************************************************************************)

(* ConnectionManager.connect creates one TerminalHandler per connection.   *)
(* The handler of the model is the one of the first process spawned.       *)
TermAgent == 1

(* The agent of that connection asks for a terminal: the request arrives   *)
(* over the initialized connection of a running process.                   *)
AgentCreatesTerminal ==
  /\ TermAgent \in connections
  /\ procs[TermAgent].st = "run"
  /\ createTerminal(DefaultOutputByteLimit, 1)

NextConnTerm ==
  \/ SeqConnect
  \/ InitializeDone
  \/ NewSessionDone
  \/ AuthChoiceDone
  \/ AuthenticateDone
  \/ RetryNewSessionDone
  \/ SeqDisconnect
  \/ SeqNewConversation
  \/ ProcessClose
  \/ AgentCreatesTerminal
  \/ ChildExits

SpecConnTerm == Init /\ [][NextConnTerm]_vars

(* C35: once the agent process of the connection has been killed (by       *)
(* disconnectAgent) or has closed, no terminal of that connection is left: *)
(* the handler's table is empty and none of its children still runs.       *)
C35_NoTerminalOutlivesConnection ==
  procs[TermAgent].st \in {"killed", "closed"} =>
    /\ terminals = EmptyMap
    /\ \A t \in DOMAIN children : children[t].st # "run"

(***************************************************************************)
(* Process closure and the owner of a session                              *)
(***************************************************************************)

(* C36: the close event of a process removes no session that another       *)
(* process owns, and emits agent-disconnected only if the closing process  *)
(* owned a session: a process killed by disconnectAgent or newConversation *)
(* that closes later leaves the session of its successor alone.            *)
C36_CloseRemovesOnlyOwnSession ==
  [][last'.op = "close" =>
       /\ \A sid \in DOMAIN sessions :
            sessions[sid].agentId # last'.id => sid \in DOMAIN sessions'
       /\ (\E i \in 1..Len(emitted') : emitted'[i].ev = "agent-disconnected")
            => \E sid \in DOMAIN sessions : sessions[sid].agentId = last'.id]_vars

(***************************************************************************)
(* The session table and the agent-name map                                *)
(***************************************************************************)

(* C37: every registered session is the one its agent name maps to, and    *)
(* every session id the agent-name map holds is registered, also when      *)
(* connectToAgent calls for the same agent name overlap.                   *)
C37_TablesCorrespond ==
  /\ \A sid \in DOMAIN sessions :
       /\ sessions[sid].agentName \in DOMAIN agentSessions
       /\ agentSessions[sessions[sid].agentName] = sid
  /\ \A n \in DOMAIN agentSessions :
       /\ agentSessions[n] \in DOMAIN sessions
       /\ sessions[agentSessions[n]].agentName = n

(***************************************************************************)
(* Sessions and the supervisor's table                                     *)
(***************************************************************************)

(* C38: every session in the session table belongs to a process whose      *)
(* handle is in the supervisor's table: none is registered for, or left    *)
(* registered after, a process that has closed or was killed.              *)
C38_SessionsHaveLiveProcess ==
  \A sid \in DOMAIN sessions : sessions[sid].agentId \in DOMAIN agents

(***************************************************************************)
(* SessionManager.dispose and the active-session pointer                   *)
(***************************************************************************)

(* AgentManager.killAll(): killAgent for every instance in the table.      *)
RECURSIVE killAll(_)
killAll(S) ==
  IF DOMAIN S.ag = {} THEN S
  ELSE killAll(killAgent(S, CHOOSE id \in DOMAIN S.ag : TRUE))

(* SessionManager.dispose(): killAll, the connection table and both        *)
(* session maps are cleared; activeSessionId is not assigned and nothing   *)
(* is emitted.                                                             *)
dispose(S) == [killAll(S) EXCEPT !.cn = {}, !.ss = EmptyMap, !.as = EmptyMap]

(* The host disposes the extension's subscriptions.                        *)
Dispose ==
  /\ Quiescent
  /\ last.op # "dispose"
  /\ Set(dispose(Cur))
  /\ last' = Done("dispose", NoName, "-", 0, NoPrev)
  /\ prevOk' = NoPrev
  /\ UNCHANGED <<calls, nextId>>
  /\ Idle

NextDispose ==
  \/ SeqConnect
  \/ InitializeDone
  \/ NewSessionDone
  \/ AuthChoiceDone
  \/ AuthenticateDone
  \/ RetryNewSessionDone
  \/ SeqDisconnect
  \/ SeqNewConversation
  \/ ProcessClose
  \/ Dispose

SpecDispose == Init /\ [][NextDispose]_vars

(* C39: the active-session pointer is null or the id of a session in the   *)
(* session table, so getActiveSessionId() is non-null exactly when         *)
(* getActiveSession() returns a session.                                   *)
C39_ActivePointerValid ==
  activeSessionId = NoSession \/ activeSessionId \in DOMAIN sessions

(***************************************************************************)
(* Switching to an agent that fails to connect                             *)
(***************************************************************************)

(* connectToAgent(B) was called right after a successful connect of a      *)
(* different agent A, and has not resolved: it is suspended or it failed.  *)
SwitchInFlight(c) ==
  /\ c \in InFlight
  /\ calls[c].after.name \notin {NoName, procs[c].name}

FailedSwitch ==
  /\ last.op = "connect"
  /\ last.res \notin {"ok", "reused"}
  /\ last.after.name \notin {NoName, last.name}

Disconnected(prev) ==
  /\ prev.name \notin DOMAIN agentSessions
  /\ prev.sid \notin DOMAIN sessions
  /\ activeSessionId # prev.sid
  /\ Killed(prev.id)
  /\ prev.id \notin connections

(* C40: when connectToAgent(B) is called while another agent A holds the   *)
(* active session, A is disconnected from the moment B's process is        *)
(* spawned, and also when B is not a configured agent; if the connect to B *)
(* fails on any path, no agent is connected afterwards and A's session is  *)
(* not restored.                                                           *)
C40_FailedSwitchLeavesNothing ==
  /\ \A c \in Ids : SwitchInFlight(c) => Disconnected(calls[c].after)
  /\ FailedSwitch =>
       /\ Disconnected(last.after)
       /\ agentSessions = EmptyMap
       /\ sessions = EmptyMap
       /\ activeSessionId = NoSession

(* The switch from "a" failed because the other name is not configured.    *)
C40_Witness ==
  /\ FailedSwitch
  /\ last.res = "unknown-agent"
  /\ last.after.name = "a"
  /\ Killed(last.after.id)
  /\ agentSessions = EmptyMap

====
